---- MODULE Spec2Model ----
(***************************************************************************)
(* Model of the video-to-audio converter: VideoToAudioConverter.convert_file*)
(* (src/src/converter.py) with the helpers of src/src/utils.py and the      *)
(* exception taxonomy of src/src/exceptions.py.                             *)
(*                                                                          *)
(* Text is modelled as a sequence of chunks.  A chunk is either one of the  *)
(* trigger phrases the classifier looks for or a filler that contains none  *)
(* of them, so "phrase in text" is membership of the phrase chunk and       *)
(* "message contains text verbatim" is a contiguous sub-sequence.  The      *)
(* Japanese message literals of the source are written as ASCII glosses.    *)
(***************************************************************************)
EXTENDS Integers, Sequences, FiniteSets, TLC

\* ------------------------------------------------------------------ bounds
\* longest captured stderr, in chunks
MaxStderrLen == 2

\* --------------------------------------------------------------- constants
MiB == 1048576

\* ----------------------------------------------------------------- helpers
Max(a, b) == IF a >= b THEN a ELSE b

Append1(s, e) == s \o <<e>>

\* sub occurs in s as a contiguous sub-sequence (Python's `sub in s` on text)
Contains(s, sub) ==
    \E i \in 0..(Len(s) - Len(sub)) :
        \A j \in 1..Len(sub) : s[i + j] = sub[j]

\* number of occurrences of e in s
Count(s, e) == Cardinality({i \in 1..Len(s) : s[i] = e})

\* positions of e in s
Positions(s, e) == {i \in 1..Len(s) : s[i] = e}

SeqsUpTo(S, n) == UNION {[1..k -> S] : k \in 0..n}

\* ------------------------------------------------------------ pathlib.Path
\* A path is a parent directory and a final component; the final component
\* is a sequence of chunks in which "." is the dot character.
Path(parent, name) == [parent |-> parent, name |-> name]

NoPath == Path("", <<>>)

\* str.rfind("."), 1-based, 0 when there is no dot
LastDot(name) ==
    IF Positions(name, ".") = {} THEN 0
    ELSE CHOOSE i \in Positions(name, ".") :
            \A j \in Positions(name, ".") : j <= i

\* PurePath.suffix: the last dot counts unless it is the first or the last
\* character of the name
Suffix(name) ==
    LET i == LastDot(name)
    IN  IF 1 < i /\ i < Len(name) THEN SubSeq(name, i, Len(name)) ELSE <<>>

\* PurePath.stem
Stem(name) ==
    LET i == LastDot(name)
    IN  IF 1 < i /\ i < Len(name) THEN SubSeq(name, 1, i - 1) ELSE name

\* str.lower() on the extension chunks that occur in the model
LowerChunk(c) ==
    CASE c = "MP4" -> "mp4"
      [] c = "Avi" -> "avi"
      [] c = "TXT" -> "txt"
      [] OTHER -> c

Lower(s) == [i \in DOMAIN s |-> LowerChunk(s[i])]

\* ---------------------------------------------------------------- utils.py
SUPPORTED_VIDEO_FORMATS ==
    { <<".", "mp4">>, <<".", "avi">>, <<".", "mov">>, <<".", "mkv">>,
      <<".", "wmv">>, <<".", "flv">>, <<".", "webm">>, <<".", "m4v">>,
      <<".", "3gp">>, <<".", "ts">>, <<".", "mts">>, <<".", "m2ts">> }

is_supported_video_format_any_suffix(file_path) ==
    Suffix(file_path.name) # <<>>

is_supported_video_format(file_path) ==
    Lower(Suffix(file_path.name)) \in SUPPORTED_VIDEO_FORMATS

get_output_path_keep_name(input_path, output_dir) ==
    Path(output_dir, input_path.name \o <<".", "mp3">>)

get_output_path_tagged(input_path, output_dir) ==
    Path(output_dir,
         Stem(input_path.name) \o <<"_">> \o Tail(Suffix(input_path.name))
            \o <<".", "mp3">>)

get_output_path_first_dot(input_path, output_dir) ==
    LET dots == Positions(input_path.name, ".")
        first == IF dots = {} THEN Len(input_path.name) + 1
                 ELSE CHOOSE i \in dots : \A j \in dots : i <= j
    IN  Path(output_dir, SubSeq(input_path.name, 1, first - 1) \o <<".", "mp3">>)

\* output_dir / (input_path.stem + ".mp3")
get_output_path(input_path, output_dir) ==
    Path(output_dir, Stem(input_path.name) \o <<".", "mp3">>)

\* ------------------------------------------------------------ exceptions.py
\* The seven kinds of the taxonomy: VideoConverterError subclasses.
VideoConverterErrors ==
    { "FileNotFoundError", "UnsupportedFormatError", "FFmpegNotFoundError",
      "ConversionError", "InsufficientSpaceError", "PermissionError",
      "FileInUseError" }

\* the lower-level failure an error was raised from (`raise ... from e`)
Cause(kind, text) == [kind |-> kind, text |-> text]

NoCause == Cause("none", <<>>)

\* VideoConverterError.__init__(message, file_path)
VideoConverterError(type, message, file_path, cause) ==
    [type |-> type, message |-> message, file_path |-> file_path,
     cause |-> cause]

\* an exception that is not of the taxonomy, propagating as it is
RawException(type, text) ==
    [type |-> type, message |-> text, file_path |-> NoPath,
     cause |-> NoCause]

NoExc == [type |-> "none", message |-> <<>>, file_path |-> NoPath,
          cause |-> NoCause]

\* ------------------------------------------------------- message literals
\* converter.py:91
MsgInputNotFound == "input file not found"
\* converter.py:96
MsgUnsupportedFormat == "unsupported format: "
\* converter.py:113
MsgCannotAccess == "cannot access the file: "
\* converter.py:131
MsgConversionStart == "conversion started: "
\* converter.py:136
MsgConversionDone == "conversion finished: "
\* converter.py:147
MsgNoPermission == "no permission to access the file"
\* converter.py:153
MsgFileInUse == "file is in use by another process"
\* converter.py:157
MsgNoSpace == "not enough space"
\* converter.py:162
MsgConversionFailed == "an error occurred during conversion: "
\* converter.py:166
MsgUnexpected == "an unexpected error occurred: "
\* utils.py:144
MsgShortage == "free space is insufficient. required: "
\* utils.py:145
MsgAvailable == "MB, available: "
\* utils.py:148
MsgSpaceCheckError == "an error occurred during the space check: "

\* ----------------------------------------------------- diagnostic chunks
PermissionDenied == "Permission denied"
AccessIsDenied == "Access is denied"
ResourceBusy == "Resource busy"
BeingUsed == "being used by another process"
NoSpaceLeft == "No space left"
Filler == "Invalid codec"

TriggerPhrases ==
    {PermissionDenied, AccessIsDenied, ResourceBusy, BeingUsed, NoSpaceLeft}

TextChunks == TriggerPhrases \cup {Filler}

\* bytes: a chunk of captured output is the UTF-8 encoding of a text chunk
\* or a byte sequence that is not valid UTF-8
Utf8(c) == [utf8 |-> c]

InvalidUtf8 == [utf8 |-> "\\xff"]

ByteChunks == {Utf8(c) : c \in TextChunks} \cup {InvalidUtf8}

\* bytes.decode("utf-8") succeeds
CanDecode(b) == \A i \in DOMAIN b : b[i] # InvalidUtf8

\* bytes.decode("utf-8")
Decode(b) == [i \in DOMAIN b |-> b[i].utf8]

\* str(ffmpeg.Error): the fixed text of the library's exception
StrFfmpegError == <<"ffmpeg error (see stderr output for detail)">>

\* str(e) of the OS errors the model draws from
OSErrorTexts ==
    { <<"[Errno 13] ", PermissionDenied>>,
      <<"[Errno 5] Input/output error">>,
      <<"[Errno 28] ", NoSpaceLeft, " on device">> }

\* str(e) of an exception raised by the progress callback
CallbackErrorTexts == { <<"callback failed">> }

\* ------------------------------------------------- utils.check_disk_space
\* result of shutil.disk_usage: the free bytes, or an OSError
DiskUsage(free) == [ok |-> TRUE, free |-> free, text |-> <<>>]

DiskUsageError(text) == [ok |-> FALSE, free |-> 0, text |-> text]

\* n / unit rounded to one decimal as the ".1f" format does, in tenths.
\* n / unit is exact in a double (the units are powers of two), so the
\* format rounds the exact quotient, ties to even.  unit >= 1024; the
\* remainder is split so that no product exceeds 32 bits.
Tenths1(n, unit) ==
    LET base == unit \div 1024
        q == n \div unit
        r == n % unit
        a == r \div base
        b == r % base
        w == (10 * a) + ((10 * b) \div base)
        d == w \div 1024
        rest == ((w % 1024) * base) + ((10 * b) % base)
        down == (10 * q) + d
    IN  IF 2 * rest > unit \/ (2 * rest = unit /\ down % 2 = 1)
        THEN down + 1
        ELSE down

\* f"{free_space_mb:.1f}": megabytes with one decimal
FormatMB1(free) ==
    LET tenths == Tenths1(free, MiB)
    IN  <<ToString(tenths \div 10), ".", ToString(tenths % 10)>>

Raised(exc) == [raised |-> TRUE, exc |-> exc]

Passed == [raised |-> FALSE, exc |-> NoExc]

check_disk_space_query_error_as_oserror(du, required_space_mb) ==
    IF ~du.ok
    THEN Raised(RawException("OSError", du.text))
    ELSE IF du.free < required_space_mb * MiB
    THEN Raised(VideoConverterError("InsufficientSpaceError",
                    <<MsgShortage, ToString(required_space_mb), MsgAvailable>>
                        \o FormatMB1(du.free) \o <<"MB">>,
                    NoPath, NoCause))
    ELSE Passed

check_disk_space_never_fails(du, required_space_mb) == Passed

check_disk_space_not_strict(du, required_space_mb) ==
    IF ~du.ok
    THEN Raised(VideoConverterError("InsufficientSpaceError",
                    <<MsgSpaceCheckError>> \o du.text,
                    NoPath, Cause("OSError", du.text)))
    ELSE IF du.free <= required_space_mb * MiB
    THEN Raised(VideoConverterError("InsufficientSpaceError",
                    <<MsgShortage, ToString(required_space_mb), MsgAvailable>>
                        \o FormatMB1(du.free) \o <<"MB">>,
                    NoPath, NoCause))
    ELSE Passed

\* free_space_mb < required_space_mb with free_space_mb = free / 2^20 is
\* free < required_space_mb * 2^20 (the division by a power of two is exact)
check_disk_space(du, required_space_mb) ==
    IF ~du.ok
    THEN Raised(VideoConverterError("InsufficientSpaceError",
                    <<MsgSpaceCheckError>> \o du.text,
                    NoPath, Cause("OSError", du.text)))
    ELSE IF du.free < required_space_mb * MiB
    THEN Raised(VideoConverterError("InsufficientSpaceError",
                    <<MsgShortage, ToString(required_space_mb), MsgAvailable>>
                        \o FormatMB1(du.free) \o <<"MB">>,
                    NoPath, NoCause))
    ELSE Passed

\* ------------------------------------------------------------ converter.py
EstimatedOutputSize_rounded_up(st_size) ==
    Max((st_size * 3 + 20 * MiB - 1) \div (20 * MiB), 10)

\* max(int(input_size_mb * 0.15), 10) with input_size_mb = st_size / 2^20
EstimatedOutputSize(st_size) == Max((st_size * 3) \div (20 * MiB), 10)

\* the second try block's handler for ffmpeg.Error
\* error_message = e.stderr.decode("utf-8") if e.stderr else str(e)
ErrorMessage(stderr) == IF stderr # <<>> THEN Decode(stderr) ELSE StrFfmpegError

HasPhrase(text, phrase) == \E i \in DOMAIN text : text[i] = phrase

ClassifyMessage_space_first(error_message, input_path) ==
    LET cause == Cause("ffmpeg.Error", error_message)
    IN  IF HasPhrase(error_message, NoSpaceLeft)
        THEN VideoConverterError("InsufficientSpaceError",
                <<MsgNoSpace>>, NoPath, cause)
        ELSE IF HasPhrase(error_message, PermissionDenied)
                \/ HasPhrase(error_message, AccessIsDenied)
        THEN VideoConverterError("PermissionError",
                <<MsgNoPermission>>, input_path, cause)
        ELSE IF HasPhrase(error_message, ResourceBusy)
                \/ HasPhrase(error_message, BeingUsed)
        THEN VideoConverterError("FileInUseError",
                <<MsgFileInUse>>, input_path, cause)
        ELSE VideoConverterError("ConversionError",
                <<MsgConversionFailed>> \o error_message, input_path, cause)

ClassifyMessage_drop_text(error_message, input_path) ==
    LET cause == Cause("ffmpeg.Error", error_message)
    IN  IF HasPhrase(error_message, PermissionDenied)
            \/ HasPhrase(error_message, AccessIsDenied)
        THEN VideoConverterError("PermissionError",
                <<MsgNoPermission>>, input_path, cause)
        ELSE IF HasPhrase(error_message, ResourceBusy)
                \/ HasPhrase(error_message, BeingUsed)
        THEN VideoConverterError("FileInUseError",
                <<MsgFileInUse>>, input_path, cause)
        ELSE IF HasPhrase(error_message, NoSpaceLeft)
        THEN VideoConverterError("InsufficientSpaceError",
                <<MsgNoSpace>>, NoPath, cause)
        ELSE VideoConverterError("ConversionError",
                <<MsgConversionFailed>>, input_path, cause)

\* the if / elif chain on error_message
ClassifyMessage(error_message, input_path) ==
    LET cause == Cause("ffmpeg.Error", error_message)
    IN  IF HasPhrase(error_message, PermissionDenied)
            \/ HasPhrase(error_message, AccessIsDenied)
        THEN VideoConverterError("PermissionError",
                <<MsgNoPermission>>, input_path, cause)
        ELSE IF HasPhrase(error_message, ResourceBusy)
                \/ HasPhrase(error_message, BeingUsed)
        THEN VideoConverterError("FileInUseError",
                <<MsgFileInUse>>, input_path, cause)
        ELSE IF HasPhrase(error_message, NoSpaceLeft)
        THEN VideoConverterError("InsufficientSpaceError",
                <<MsgNoSpace>>, NoPath, cause)
        ELSE VideoConverterError("ConversionError",
                <<MsgConversionFailed>> \o error_message, input_path, cause)

\* except ffmpeg.Error as e: decoding happens inside the handler, so a
\* UnicodeDecodeError raised there is not caught by the sibling
\* `except Exception` clause and leaves convert_file as it is
HandleFfmpegError(stderr, input_path) ==
    IF stderr # <<>> /\ ~CanDecode(stderr)
    THEN RawException("UnicodeDecodeError",
            <<"'utf-8' codec can't decode byte 0xff">>)
    ELSE ClassifyMessage(ErrorMessage(stderr), input_path)

UnexpectedError_drop_text(text, input_path) ==
    VideoConverterError("ConversionError",
        <<MsgUnexpected>>, input_path, Cause("Exception", text))

\* except Exception as e
UnexpectedError(text, input_path) ==
    VideoConverterError("ConversionError",
        <<MsgUnexpected>> \o text, input_path, Cause("Exception", text))

\* ffmpeg.input / ffmpeg.output / ffmpeg.overwrite_output: the command
BuildCommand_no_overwrite(input_path, output_path, bitrate) ==
    [input |-> input_path, target |-> output_path, acodec |-> "libmp3lame",
     ab |-> bitrate, ar |-> "44100", overwrite |-> FALSE]

BuildCommand(input_path, output_path, bitrate) ==
    [input |-> input_path, target |-> output_path, acodec |-> "libmp3lame",
     ab |-> bitrate, ar |-> "44100", overwrite |-> TRUE]

NoCommand ==
    [input |-> NoPath, target |-> NoPath, acodec |-> "", ab |-> "",
     ar |-> "", overwrite |-> FALSE]

\* ------------------------------------------------------------------ inputs
\* file names given to convert_file
Names ==
    { <<"a", ".", "mp4">>, <<"a", ".", "MP4">>, <<"a", ".", "Avi">>,
      <<"b", ".", "mkv">>, <<"a", ".", "tar", ".", "ts">>,
      <<"a", ".", "txt">>, <<"a", ".", "TXT">>, <<"a">>,
      <<".", "mp4">>, <<"a", ".">> }

InputPaths == {Path("movie", n) : n \in Names}

\* the bitrates engines are constructed with: the default and a custom one
Bitrates == {"192k", "320k"}

\* st_size of the input, in bytes
Sizes == {0, 70 * MiB, 80 * MiB}

\* free bytes reported by shutil.disk_usage
FreeSpaces == {0, 10 * MiB - 1, 10 * MiB, 12 * MiB - 1, 12 * MiB}

\* result of input_path.stat(): the size, or an OSError
StatResult(size) == [ok |-> TRUE, size |-> size, text |-> <<>>]

StatError(text) == [ok |-> FALSE, size |-> 0, text |-> text]

NoStat == [ok |-> TRUE, size |-> 0, text |-> <<"not called">>]

NoDiskUsage == [ok |-> TRUE, free |-> 0, text |-> <<"not called">>]

StatResults == {StatResult(n) : n \in Sizes} \cup {StatError(t) : t \in OSErrorTexts}

DiskUsages ==
    {DiskUsage(n) : n \in FreeSpaces} \cup {DiskUsageError(t) : t \in OSErrorTexts}

\* stderr captured from a failed encoder run
Stderrs == SeqsUpTo(ByteChunks, MaxStderrLen)

\* ------------------------------------------------------------------- state
VARIABLES
    pc,                     \* position in convert_file
    self,                   \* the engine: output_dir, bitrate
    input_path,             \* argument
    progress_callback,      \* argument: "None" or "callable"
    input_exists,           \* what input_path.exists() returned
    output_path,            \* local
    stat_result,            \* what input_path.stat() gave
    estimated_output_size,  \* local
    disk_usage,             \* what shutil.disk_usage gave
    cmd,                    \* output_stream: the command handed to ffmpeg.run
    stderr,                 \* e.stderr of the ffmpeg.Error, if one was raised
    outcome,                \* how the call ended
    trace,                  \* operations performed by the current call
    callback_calls,         \* arguments of the progress_callback calls
    outfiles,               \* files in the output directory
    running,                \* encoder processes running
    callback_raised,        \* the progress callback raised in this call
    target_existed          \* the target was there when the encoder started

VARIABLES
    u_fn,                   \* utility function last applied
    u_arg,                  \* its argument
    u_res                   \* its result

utilVars == <<u_fn, u_arg, u_res>>

\* no utility function applied yet
UtilIdle == u_fn = "none" /\ u_arg = 0 /\ u_res = 0

VARIABLES
    cli_pc,                 \* position in the convert command
    args,                   \* options of the command line
    movie,                  \* the movie directory
    out_dir,                \* what is at the output directory's path
    ffmpeg_installed,       \* result of check_ffmpeg_installed
    engine_error,           \* exception raised by the constructor
    video_files,            \* the current listing
    user_input,             \* the answer read at the prompt, normalised
    idx,                    \* position of the 'all' loop in the listing
    success_count,          \* success_count of the 'all' loop
    results,                \* convert_single_file results of the 'all' loop
    csf,                    \* the convert_single_file call
    exit_code,              \* exit code of the command
    cli_ops,                \* what the command has done so far
    rounds                  \* answers read at the prompt

cliVars == <<cli_pc, args, movie, out_dir, ffmpeg_installed, engine_error,
             video_files, user_input, idx, success_count, results, csf,
             exit_code, cli_ops, rounds>>

\* typer options: -b, -l, -f (None: NoPath), --info, -o
Args(bitrate, list_files, file, info, output) ==
    [bitrate |-> bitrate, list_files |-> list_files, file |-> file,
     info |-> info, output |-> output]

NoArgs == Args("", FALSE, NoPath, FALSE, "")

\* a directory entry: a regular file or a subdirectory
Entry(name, is_file) == [name |-> name, is_file |-> is_file]

\* what is at a directory's path: a directory with entries, a file, nothing
Dir(entries) == [exists |-> TRUE, is_dir |-> TRUE, entries |-> entries]

NotADir == [exists |-> TRUE, is_dir |-> FALSE, entries |-> {}]

NoDir == [exists |-> FALSE, is_dir |-> FALSE, entries |-> {}]

\* convert_single_file(file_path, converter, show_info): its arguments,
\* what the information display did and how the call ended
Csf(file_path, show_info, info, result) ==
    [file_path |-> file_path, show_info |-> show_info, info |-> info,
     result |-> result]

NoCsf == Csf(NoPath, FALSE, "none", "none")

\* no exit code yet
NoExit == -1

\* the command line is not running
CliOff ==
    /\ cli_pc = "off"
    /\ args = NoArgs
    /\ movie = NoDir
    /\ out_dir = "dir"
    /\ ffmpeg_installed = "True"
    /\ engine_error = NoExc
    /\ video_files = <<>>
    /\ user_input = ""
    /\ idx = 0
    /\ success_count = 0
    /\ results = <<>>
    /\ csf = NoCsf
    /\ exit_code = NoExit
    /\ cli_ops = {}
    /\ rounds = 0

\* the state outside convert_file
otherVars == <<utilVars, cliVars>>

vars == <<pc, self, input_path, progress_callback, input_exists, output_path,
          stat_result, estimated_output_size, disk_usage, cmd, stderr,
          outcome, trace, callback_calls, outfiles, running,
          callback_raised, target_existed, otherVars>>

Pending == [status |-> "pending", value |-> NoPath, exc |-> NoExc]

Returned(path) == [status |-> "returned", value |-> path, exc |-> NoExc]

Failed(exc) == [status |-> "raised", value |-> NoPath, exc |-> exc]

\* the constructed engine, before any call
Init ==
    /\ pc = "idle"
    /\ self \in {[output_dir |-> "mp3", bitrate |-> b] : b \in Bitrates}
    /\ input_path = NoPath
    /\ progress_callback = "None"
    /\ input_exists = FALSE
    /\ output_path = NoPath
    /\ stat_result = NoStat
    /\ estimated_output_size = 0
    /\ disk_usage = NoDiskUsage
    /\ cmd = NoCommand
    /\ stderr = <<>>
    /\ outcome = Pending
    /\ trace = <<>>
    /\ callback_calls = <<>>
    /\ outfiles = {}
    /\ running = 0
    /\ callback_raised = FALSE
    /\ target_existed = FALSE
    /\ UtilIdle
    /\ CliOff

\* raise exc out of convert_file
Raise(exc) ==
    /\ outcome' = Failed(exc)
    /\ pc' = "done"

\* entry of convert_file(input_path, progress_callback)
Enter(p, cb) ==
    /\ input_path' = p
    /\ progress_callback' = cb
    /\ pc' = "exists"
    /\ input_exists' = FALSE
    /\ output_path' = NoPath
    /\ stat_result' = NoStat
    /\ estimated_output_size' = 0
    /\ disk_usage' = NoDiskUsage
    /\ cmd' = NoCommand
    /\ stderr' = <<>>
    /\ outcome' = Pending
    /\ trace' = <<>>
    /\ callback_calls' = <<>>
    /\ callback_raised' = FALSE
    /\ target_existed' = FALSE
    /\ UNCHANGED <<outfiles, running>>

\* convert_file(input_path, progress_callback) is called
Call ==
    /\ pc \in {"idle", "done"}
    /\ \E p \in InputPaths, cb \in {"None", "callable"} : Enter(p, cb)
    /\ UNCHANGED self
    /\ UNCHANGED otherVars

CheckExists_no_raise ==
    /\ pc = "exists"
    /\ \E ex \in BOOLEAN : input_exists' = ex
    /\ pc' = "format"
    /\ trace' = Append1(trace, "exists")
    /\ UNCHANGED <<self, input_path, progress_callback, output_path,
                   stat_result, estimated_output_size, disk_usage, cmd,
                   stderr, outcome, callback_calls, outfiles, running,
                   callback_raised, target_existed>>
    /\ UNCHANGED otherVars

\* if not input_path.exists(): raise FileNotFoundError
CheckExists ==
    /\ pc = "exists"
    /\ \E ex \in BOOLEAN :
        /\ input_exists' = ex
        /\ IF ~ex
           THEN Raise(VideoConverterError("FileNotFoundError",
                    <<MsgInputNotFound>>, input_path, NoCause))
           ELSE pc' = "format" /\ UNCHANGED outcome
    /\ trace' = Append1(trace, "exists")
    /\ UNCHANGED <<self, input_path, progress_callback, output_path,
                   stat_result, estimated_output_size, disk_usage, cmd,
                   stderr, callback_calls, outfiles, running,
                   callback_raised, target_existed>>
    /\ UNCHANGED otherVars

\* if not is_supported_video_format(input_path): raise UnsupportedFormatError
\* output_path = get_output_path(input_path, self.output_dir)
CheckFormat ==
    /\ pc = "format"
    /\ IF ~is_supported_video_format(input_path)
       THEN /\ Raise(VideoConverterError("UnsupportedFormatError",
                    <<MsgUnsupportedFormat>> \o Suffix(input_path.name),
                    input_path, NoCause))
            /\ UNCHANGED output_path
       ELSE /\ output_path' = get_output_path(input_path, self.output_dir)
            /\ pc' = "stat"
            /\ UNCHANGED outcome
    /\ trace' = Append1(trace, "is_supported_video_format")
    /\ UNCHANGED <<self, input_path, progress_callback, input_exists,
                   stat_result, estimated_output_size, disk_usage, cmd,
                   stderr, callback_calls, outfiles, running,
                   callback_raised, target_existed>>
    /\ UNCHANGED otherVars

\* first try block: input_path.stat().st_size and the estimate;
\* except OSError: raise PermissionError
StatInput ==
    /\ pc = "stat"
    /\ \E st \in StatResults :
        /\ stat_result' = st
        /\ IF ~st.ok
           THEN /\ Raise(VideoConverterError("PermissionError",
                        <<MsgCannotAccess>> \o st.text, input_path,
                        Cause("OSError", st.text)))
                /\ UNCHANGED estimated_output_size
           ELSE /\ estimated_output_size' = EstimatedOutputSize(st.size)
                /\ pc' = "diskspace"
                /\ UNCHANGED outcome
    /\ trace' = Append1(trace, "stat")
    /\ UNCHANGED <<self, input_path, progress_callback, input_exists,
                   output_path, disk_usage, cmd, stderr, callback_calls,
                   outfiles, running, callback_raised, target_existed>>
    /\ UNCHANGED otherVars

\* the exception check_disk_space raised, as it leaves the first try block:
\* except OSError turns an OSError into PermissionError, anything else passes
PreflightExcept(exc, path) ==
    IF exc.type = "OSError"
    THEN VideoConverterError("PermissionError",
            <<MsgCannotAccess>> \o exc.message, path,
            Cause("OSError", exc.message))
    ELSE exc

\* first try block: check_disk_space(output_path, estimated_output_size)
CheckDiskSpace ==
    /\ pc = "diskspace"
    /\ \E du \in DiskUsages :
        /\ disk_usage' = du
        /\ LET r == check_disk_space(du, estimated_output_size)
           IN  IF r.raised
               THEN Raise(PreflightExcept(r.exc, input_path))
               ELSE pc' = "build" /\ UNCHANGED outcome
    /\ trace' = Append1(trace, "check_disk_space")
    /\ UNCHANGED <<self, input_path, progress_callback, input_exists,
                   output_path, stat_result, estimated_output_size, cmd,
                   stderr, callback_calls, outfiles, running,
                   callback_raised, target_existed>>
    /\ UNCHANGED otherVars

\* ffmpeg.input, ffmpeg.output, ffmpeg.overwrite_output
BuildStream ==
    /\ pc = "build"
    /\ cmd' = BuildCommand(input_path, output_path, self.bitrate)
    /\ pc' = "cb_start"
    /\ UNCHANGED <<self, input_path, progress_callback, input_exists,
                   output_path, stat_result, estimated_output_size,
                   disk_usage, stderr, outcome, trace, callback_calls,
                   outfiles, running, callback_raised, target_existed>>
    /\ UNCHANGED otherVars

CallbackStart_swallow ==
    /\ pc = "cb_start"
    /\ pc' = "run"
    /\ IF progress_callback = "None"
       THEN UNCHANGED <<trace, callback_calls, callback_raised>>
       ELSE /\ trace' = Append1(trace, "callback_start")
            /\ callback_calls' =
                 Append1(callback_calls, <<MsgConversionStart>> \o input_path.name)
            /\ \E r \in BOOLEAN : callback_raised' = r
    /\ UNCHANGED <<self, input_path, progress_callback, input_exists,
                   output_path, stat_result, estimated_output_size,
                   disk_usage, cmd, stderr, outcome, outfiles, running,
                   target_existed>>
    /\ UNCHANGED otherVars

\* if progress_callback: progress_callback(start message); an exception of
\* the callback is caught by `except Exception`
CallbackStart ==
    /\ pc = "cb_start"
    /\ IF progress_callback = "None"
       THEN /\ pc' = "run"
            /\ UNCHANGED <<outcome, trace, callback_calls, callback_raised>>
       ELSE /\ trace' = Append1(trace, "callback_start")
            /\ callback_calls' =
                 Append1(callback_calls, <<MsgConversionStart>> \o input_path.name)
            /\ \/ pc' = "run" /\ UNCHANGED <<outcome, callback_raised>>
               \/ /\ \E t \in CallbackErrorTexts :
                        Raise(UnexpectedError(t, input_path))
                  /\ callback_raised' = TRUE
    /\ UNCHANGED <<self, input_path, progress_callback, input_exists,
                   output_path, stat_result, estimated_output_size,
                   disk_usage, cmd, stderr, outfiles, running,
                   target_existed>>
    /\ UNCHANGED otherVars

LaunchEncoder_async ==
    /\ pc = "run"
    /\ trace' = Append1(trace, "run")
    /\ target_existed' = (cmd.target \in outfiles)
    /\ running' = running + 1
    /\ pc' = "cb_done"
    /\ UNCHANGED <<self, input_path, progress_callback, input_exists,
                   output_path, stat_result, estimated_output_size,
                   disk_usage, cmd, stderr, outcome, callback_calls,
                   outfiles, callback_raised>>
    /\ UNCHANGED otherVars

LaunchEncoder_classifies_spawn_error ==
    /\ pc = "run"
    /\ trace' = Append1(trace, "run")
    /\ target_existed' = (cmd.target \in outfiles)
    /\ \/ /\ running' = running + 1
          /\ pc' = "wait"
          /\ UNCHANGED outcome
       \/ /\ \E t \in OSErrorTexts : Raise(ClassifyMessage(t, input_path))
          /\ UNCHANGED running
    /\ UNCHANGED <<self, input_path, progress_callback, input_exists,
                   output_path, stat_result, estimated_output_size,
                   disk_usage, cmd, stderr, callback_calls, outfiles,
                   callback_raised>>
    /\ UNCHANGED otherVars

\* ffmpeg.run: the encoder process is started, or starting it fails with an
\* OSError, which `except Exception` catches
LaunchEncoder ==
    /\ pc = "run"
    /\ trace' = Append1(trace, "run")
    /\ target_existed' = (cmd.target \in outfiles)
    /\ \/ /\ running' = running + 1
          /\ pc' = "wait"
          /\ UNCHANGED outcome
       \/ /\ \E t \in OSErrorTexts : Raise(UnexpectedError(t, input_path))
          /\ UNCHANGED running
    /\ UNCHANGED <<self, input_path, progress_callback, input_exists,
                   output_path, stat_result, estimated_output_size,
                   disk_usage, cmd, stderr, callback_calls, outfiles,
                   callback_raised>>
    /\ UNCHANGED otherVars

EncoderExit_notifies_on_failure ==
    /\ pc = "wait"
    /\ running' = running - 1
    /\ \/ /\ cmd.overwrite \/ cmd.target \notin outfiles
          /\ outfiles' = outfiles \cup {cmd.target}
          /\ trace' = Append1(trace, "run_exit")
          /\ pc' = "cb_done"
          /\ UNCHANGED <<stderr, outcome, callback_calls>>
       \/ /\ \E b \in Stderrs :
               /\ stderr' = b
               /\ Raise(HandleFfmpegError(b, input_path))
          /\ IF progress_callback = "None"
             THEN /\ trace' = trace \o <<"run_exit", "ffmpeg.Error">>
                  /\ UNCHANGED callback_calls
             ELSE /\ trace' = trace \o <<"run_exit", "ffmpeg.Error",
                                         "callback_done">>
                  /\ callback_calls' =
                       Append1(callback_calls,
                               <<MsgConversionDone>> \o output_path.name)
          /\ \/ UNCHANGED outfiles
             \/ outfiles' = outfiles \cup {cmd.target}
    /\ UNCHANGED <<self, input_path, progress_callback, input_exists,
                   output_path, stat_result, estimated_output_size,
                   disk_usage, cmd, callback_raised, target_existed>>
    /\ UNCHANGED otherVars

\* ffmpeg.run: the encoder exits.  Exit code 0: the target is written (the
\* encoder refuses an existing target unless told to overwrite).  Otherwise
\* ffmpeg.Error with the captured stderr, handled by `except ffmpeg.Error`;
\* a failed encoder may or may not have left a file behind.
EncoderExit ==
    /\ pc = "wait"
    /\ running' = running - 1
    /\ \/ /\ cmd.overwrite \/ cmd.target \notin outfiles
          /\ outfiles' = outfiles \cup {cmd.target}
          /\ trace' = Append1(trace, "run_exit")
          /\ pc' = "cb_done"
          /\ UNCHANGED <<stderr, outcome>>
       \/ /\ \E b \in Stderrs :
               /\ stderr' = b
               /\ Raise(HandleFfmpegError(b, input_path))
          /\ trace' = trace \o <<"run_exit", "ffmpeg.Error">>
          /\ \/ UNCHANGED outfiles
             \/ outfiles' = outfiles \cup {cmd.target}
    /\ UNCHANGED <<self, input_path, progress_callback, input_exists,
                   output_path, stat_result, estimated_output_size,
                   disk_usage, cmd, callback_calls, callback_raised,
                   target_existed>>
    /\ UNCHANGED otherVars

CallbackDone_skipped ==
    /\ pc = "cb_done"
    /\ pc' = "return"
    /\ UNCHANGED <<self, input_path, progress_callback, input_exists,
                   output_path, stat_result, estimated_output_size,
                   disk_usage, cmd, stderr, outcome, trace, callback_calls,
                   outfiles, running, callback_raised, target_existed>>
    /\ UNCHANGED otherVars

\* if progress_callback: progress_callback(completion message)
CallbackDone ==
    /\ pc = "cb_done"
    /\ IF progress_callback = "None"
       THEN /\ pc' = "return"
            /\ UNCHANGED <<outcome, trace, callback_calls, callback_raised>>
       ELSE /\ trace' = Append1(trace, "callback_done")
            /\ callback_calls' =
                 Append1(callback_calls, <<MsgConversionDone>> \o output_path.name)
            /\ \/ pc' = "return" /\ UNCHANGED <<outcome, callback_raised>>
               \/ /\ \E t \in CallbackErrorTexts :
                        Raise(UnexpectedError(t, input_path))
                  /\ callback_raised' = TRUE
    /\ UNCHANGED <<self, input_path, progress_callback, input_exists,
                   output_path, stat_result, estimated_output_size,
                   disk_usage, cmd, stderr, outfiles, running,
                   target_existed>>
    /\ UNCHANGED otherVars

\* return output_path
Return ==
    /\ pc = "return"
    /\ outcome' = Returned(output_path)
    /\ pc' = "done"
    /\ trace' = Append1(trace, "return")
    /\ UNCHANGED <<self, input_path, progress_callback, input_exists,
                   output_path, stat_result, estimated_output_size,
                   disk_usage, cmd, stderr, callback_calls, outfiles,
                   running, callback_raised, target_existed>>
    /\ UNCHANGED otherVars

Next ==
    \/ Call
    \/ CheckExists
    \/ CheckFormat
    \/ StatInput
    \/ CheckDiskSpace
    \/ BuildStream
    \/ CallbackStart
    \/ LaunchEncoder
    \/ EncoderExit
    \/ CallbackDone
    \/ Return

Spec == Init /\ [][Next]_vars

\* ================================================================== claims
\* every b in s comes after some a
Precedes(s, a, b) ==
    \A j \in Positions(s, b) : \E i \in Positions(s, a) : i < j

Finished == pc = "done"

RaisedType(t) == outcome.status = "raised" /\ outcome.exc.type = t

\* the encoder run ended with ffmpeg.Error
EncoderFailed == Count(trace, "ffmpeg.Error") > 0

\* the encoder run ended with exit code 0
EncoderSucceeded == Count(trace, "run_exit") > 0 /\ ~EncoderFailed

\* the extension, compared case-insensitively, is in the allow-list
ExtensionAllowed ==
    Lower(Suffix(input_path.name)) \in SUPPORTED_VIDEO_FORMATS

\* output_dir/<input stem>.mp3
ExpectedOutputPath ==
    Path(self.output_dir, Stem(input_path.name) \o <<".", "mp3">>)

\* C1: for an input path that does not exist convert_file fails with
\* FileNotFoundError, and neither the stat of the input, nor
\* check_disk_space, nor the encoder launch has happened in that call.
C1_MissingInputFailsFirst ==
    (pc \notin {"idle", "exists"} /\ ~input_exists) =>
        /\ Finished
        /\ RaisedType("FileNotFoundError")
        /\ Count(trace, "stat") = 0
        /\ Count(trace, "check_disk_space") = 0
        /\ Count(trace, "run") = 0

C1_Witness ==
    /\ Finished
    /\ ~input_exists
    /\ RaisedType("FileNotFoundError")
    /\ is_supported_video_format(input_path)

\* C2 as stated: every input path whose extension is outside the allow-list
\* makes convert_file fail with UnsupportedFormatError, the encoder never
\* being invoked.
C2_Original ==
    (Finished /\ ~ExtensionAllowed) =>
        /\ RaisedType("UnsupportedFormatError")
        /\ Count(trace, "run") = 0

\* C2 as amended: an input path that exists and whose extension, compared
\* case-insensitively, is outside the allow-list makes convert_file fail
\* with UnsupportedFormatError; for every path with such an extension,
\* existing or not, the encoder is never invoked in that call.
C2_UnsupportedExtensionRejected ==
    /\ (Finished /\ input_exists /\ ~ExtensionAllowed) =>
            RaisedType("UnsupportedFormatError")
    /\ (pc # "idle" /\ ~ExtensionAllowed) =>
            (Count(trace, "run") = 0 /\ pc \notin {"run", "wait"})

C2_Witness ==
    /\ Finished
    /\ input_exists
    /\ input_path.name = <<"a", ".", "TXT">>
    /\ RaisedType("UnsupportedFormatError")
    /\ Count(trace, "run") = 0

\* the pre-flight check of this call found too little space or could not
\* query the free space
DiskCheckFailed ==
    /\ Count(trace, "check_disk_space") > 0
    /\ \/ ~disk_usage.ok
       \/ disk_usage.free < estimated_output_size * MiB

\* C3: the stat of the input (for the estimate) and check_disk_space come
\* before the encoder is started, and when the check fails the encoder is
\* never launched in that call.
C3_SpaceCheckBeforeEncoder ==
    /\ Precedes(trace, "stat", "run")
    /\ Precedes(trace, "check_disk_space", "run")
    /\ pc \in {"run", "wait"} =>
            (Count(trace, "check_disk_space") = 1 /\ ~DiskCheckFailed)
    /\ DiskCheckFailed =>
            (Count(trace, "run") = 0 /\ running = 0 /\ Finished
             /\ outcome.status = "raised")

C3_Witness ==
    /\ Finished
    /\ DiskCheckFailed
    /\ disk_usage.ok
    /\ RaisedType("InsufficientSpaceError")
    /\ Count(trace, "run") = 0

\* the kind the priority rules give for a decoded text
C4_ExpectedKind(text) ==
    IF PermissionDenied \in {text[i] : i \in DOMAIN text}
        \/ AccessIsDenied \in {text[i] : i \in DOMAIN text}
    THEN "PermissionError"
    ELSE IF ResourceBusy \in {text[i] : i \in DOMAIN text}
        \/ BeingUsed \in {text[i] : i \in DOMAIN text}
    THEN "FileInUseError"
    ELSE IF NoSpaceLeft \in {text[i] : i \in DOMAIN text}
    THEN "InsufficientSpaceError"
    ELSE "ConversionError"

\* C4: when the encoder run fails with ffmpeg.Error and its stderr decodes,
\* the kind raised is the one the priority rules give for the decoded text,
\* the earliest rule winning when several phrases occur.
C4_ClassifiedInPriorityOrder ==
    (Finished /\ EncoderFailed /\ stderr # <<>> /\ CanDecode(stderr)) =>
        RaisedType(C4_ExpectedKind(Decode(stderr)))

C4_Witness ==
    /\ Finished
    /\ EncoderFailed
    /\ stderr = <<Utf8(NoSpaceLeft), Utf8(PermissionDenied)>>
    /\ RaisedType("PermissionError")

\* the text the handler classifies: the decoded stderr, or str(e) when no
\* stderr was captured
DiagnosticText == IF stderr # <<>> THEN Decode(stderr) ELSE StrFfmpegError

\* C5: an encoder failure whose text matches no trigger phrase raises
\* ConversionError with the whole decoded text inside the message.
C5_UnmatchedFailureKeepsText ==
    (Finished /\ EncoderFailed /\ CanDecode(stderr)
       /\ \A i \in DOMAIN DiagnosticText : DiagnosticText[i] \notin TriggerPhrases) =>
        /\ RaisedType("ConversionError")
        /\ Contains(outcome.exc.message, DiagnosticText)

C5_Witness ==
    /\ Finished
    /\ EncoderFailed
    /\ stderr = <<Utf8(Filler), Utf8(Filler)>>
    /\ RaisedType("ConversionError")
    /\ outcome.exc.message = <<MsgConversionFailed, Filler, Filler>>

\* the error was made from a lower-level failure
FromLowerLevel ==
    Finished /\ outcome.status = "raised" /\ outcome.exc.cause.kind # "none"

\* an encoder failure that one of the three phrase rules matched
ClassifiedEncoderFailure ==
    /\ FromLowerLevel
    /\ outcome.exc.cause.kind = "ffmpeg.Error"
    /\ outcome.exc.type # "ConversionError"

\* C6 as stated: every error made from a lower-level failure carries the
\* diagnostic text of that failure in its message.
C6_Original ==
    FromLowerLevel =>
        Contains(outcome.exc.message, outcome.exc.cause.text)

\* C6 as amended: the errors made from a pre-flight OS failure, from an
\* unexpected exception and from an encoder failure that matches no trigger
\* phrase carry the diagnostic text in the message; the errors for the
\* three classified kinds of encoder failure carry a fixed message only.
C6_DiagnosticTextKeptUnlessClassified ==
    FromLowerLevel =>
        IF ClassifiedEncoderFailure
        THEN outcome.exc.message \in
                {<<MsgNoPermission>>, <<MsgFileInUse>>, <<MsgNoSpace>>}
        ELSE Contains(outcome.exc.message, outcome.exc.cause.text)

C6_Witness ==
    /\ FromLowerLevel
    /\ outcome.exc.cause.kind = "Exception"
    /\ Count(trace, "run") = 1
    /\ ~callback_raised
    /\ Contains(outcome.exc.message, outcome.exc.cause.text)

\* C7: every failure of convert_file is one of the seven taxonomy kinds.
C7_OnlyTaxonomyKinds ==
    (Finished /\ outcome.status = "raised") =>
        outcome.exc.type \in VideoConverterErrors

\* an OS-level failure happened in the pre-flight block of this call
StatFailed == Count(trace, "stat") > 0 /\ ~stat_result.ok

DiskQueryFailed == Count(trace, "check_disk_space") > 0 /\ ~disk_usage.ok

\* C8 as stated: an OS failure while stat-ing the input or while querying
\* the free space is reported as PermissionError.
C8_Original ==
    (Finished /\ (StatFailed \/ DiskQueryFailed)) =>
        RaisedType("PermissionError")

\* C8 as amended: an OS failure while stat-ing the input is reported as
\* PermissionError, an OS failure of the free-space query as
\* InsufficientSpaceError; neither leaves convert_file as a raw OSError.
C8_PreflightOSFailureKinds ==
    /\ (Finished /\ StatFailed) => RaisedType("PermissionError")
    /\ (Finished /\ DiskQueryFailed) => RaisedType("InsufficientSpaceError")
    /\ (StatFailed \/ DiskQueryFailed) => Finished

C8_Witness ==
    /\ Finished
    /\ DiskQueryFailed
    /\ RaisedType("InsufficientSpaceError")
    /\ outcome.exc.message[1] = MsgSpaceCheckError

\* the pre-flight block passed and the encoder exited with code 0
C9_Preconditions ==
    /\ Finished
    /\ input_exists
    /\ ExtensionAllowed
    /\ Count(trace, "check_disk_space") > 0
    /\ ~DiskCheckFailed
    /\ EncoderSucceeded

C10_Path ==
    <<"exists", "is_supported_video_format", "stat", "check_disk_space",
      "run", "run_exit", "return">>

IsCallbackEvent(e) == e \in {"callback_start", "callback_done"}

NotCallbackEvent(e) == ~IsCallbackEvent(e)

\* C10: a successful call with a callback has invoked it twice, the start
\* notification after the pre-flight checks and before the launch, the
\* completion notification after the encoder exit and before the return;
\* without a callback the call does the same operations and returns the
\* same path.
C10_CallbackAroundEncoder ==
    (Finished /\ outcome.status = "returned") =>
        /\ SelectSeq(trace, NotCallbackEvent) = C10_Path
        /\ outcome.value = ExpectedOutputPath
        /\ IF progress_callback = "callable"
           THEN /\ trace =
                    <<"exists", "is_supported_video_format", "stat",
                      "check_disk_space", "callback_start", "run",
                      "run_exit", "callback_done", "return">>
                /\ callback_calls =
                    << <<MsgConversionStart>> \o input_path.name,
                       <<MsgConversionDone>> \o ExpectedOutputPath.name >>
           ELSE /\ trace = C10_Path
                /\ callback_calls = <<>>

C10_Witness ==
    /\ Finished
    /\ outcome.status = "returned"
    /\ progress_callback = "callable"
    /\ Len(callback_calls) = 2
    /\ Precedes(trace, "callback_start", "run")
    /\ Precedes(trace, "run_exit", "callback_done")

\* the encoder process could not be started: ffmpeg.run raised before any
\* exit status existed
SpawnFailed ==
    /\ Finished
    /\ outcome.status = "raised"
    /\ Count(trace, "run") > 0
    /\ Count(trace, "run_exit") = 0

\* C23 as stated: a spawn error is classified by the substring rules of a
\* non-zero exit, so a text with "Permission denied" gives PermissionError
\* and a text with no phrase gives ConversionError.
C23_Original ==
    SpawnFailed =>
        /\ HasPhrase(outcome.exc.cause.text, PermissionDenied) =>
                outcome.exc.type = "PermissionError"
        /\ (\A ph \in TriggerPhrases : ~HasPhrase(outcome.exc.cause.text, ph)) =>
                outcome.exc.type = "ConversionError"

\* C23: a spawn error is not classified: whatever phrases its text holds,
\* convert_file fails with ConversionError whose message is the
\* unexpected-error prefix followed by the text of the error.
C23_SpawnErrorIsUnexpected ==
    SpawnFailed =>
        /\ outcome.exc.type = "ConversionError"
        /\ outcome.exc.message[1] = MsgUnexpected
        /\ outcome.exc.message = <<MsgUnexpected>> \o outcome.exc.cause.text
        /\ outcome.exc.cause.kind = "Exception"
        /\ outcome.exc.file_path = input_path
        /\ running = 0

C23_Witness ==
    /\ SpawnFailed
    /\ HasPhrase(outcome.exc.cause.text, PermissionDenied)
    /\ outcome.exc.type = "ConversionError"

\* the failure is in validation or in the pre-flight space check
PreflightFailed ==
    /\ Finished
    /\ outcome.status = "raised"
    /\ \/ ~input_exists
       \/ ~ExtensionAllowed
       \/ StatFailed
       \/ DiskCheckFailed

\* what C24 says of a failed call
C24_NoCompletionOnFailure ==
    /\ Count(trace, "callback_done") = 0
    /\ \A i \in DOMAIN callback_calls : callback_calls[i][1] # MsgConversionDone
    /\ (EncoderFailed /\ progress_callback = "callable") =>
            /\ Len(callback_calls) = 1
            /\ callback_calls[1][1] = MsgConversionStart
    /\ PreflightFailed => callback_calls = <<>>

CompletionRaised == callback_raised /\ Count(trace, "callback_done") > 0

C25_CallbackExceptionWrapped ==
    callback_raised =>
        /\ Finished
        /\ outcome.status = "raised"
        /\ outcome.exc.type = "ConversionError"
        /\ outcome.exc.message[1] = MsgUnexpected
        /\ \E t \in CallbackErrorTexts :
                outcome.exc.message = <<MsgUnexpected>> \o t
        /\ IF Count(trace, "callback_done") = 0
           THEN /\ Len(callback_calls) = 1
                /\ Count(trace, "run") = 0
                /\ running = 0
           ELSE /\ Len(callback_calls) = 2
                /\ EncoderSucceeded
                /\ cmd.target \in outfiles

C25_Witness ==
    /\ callback_raised
    /\ Count(trace, "callback_done") > 0
    /\ outcome.status = "raised"
    /\ output_path \in outfiles

\* ============================================== formatting and probing
\* Formatted texts are sequences of chunks: the numbers, the separators and
\* the unit.  Join gives the string.
RECURSIVE Join(_)
Join(chunks) ==
    IF chunks = <<>> THEN "" ELSE Head(chunks) \o Join(Tail(chunks))

\* f"{n:02d}"
Pad02(n) == IF n < 10 THEN "0" \o ToString(n) ELSE ToString(n)

\* a float number of seconds is modelled in tenths of a second
Tenth == 10

format_duration_rounded(seconds) ==
    LET hours == seconds \div (3600 * Tenth)
        minutes == (seconds % (3600 * Tenth)) \div (60 * Tenth)
        secs == ((seconds % (60 * Tenth)) + Tenth \div 2) \div Tenth
    IN  IF hours > 0
        THEN <<Pad02(hours), ":", Pad02(minutes), ":", Pad02(secs)>>
        ELSE <<Pad02(minutes), ":", Pad02(secs)>>

\* VideoToAudioConverter.format_duration
format_duration(seconds) ==
    LET hours == seconds \div (3600 * Tenth)
        minutes == (seconds % (3600 * Tenth)) \div (60 * Tenth)
        secs == (seconds % (60 * Tenth)) \div Tenth
    IN  IF hours > 0
        THEN <<Pad02(hours), ":", Pad02(minutes), ":", Pad02(secs)>>
        ELSE <<Pad02(minutes), ":", Pad02(secs)>>

\* f"{x:.1f}" of n / unit
Fixed1(n, unit) ==
    LET t == Tenths1(n, unit)
    IN  <<ToString(t \div 10), ".", ToString(t % 10)>>

KiB == 1024

GiB == 1073741824

format_file_size_inclusive(size_bytes) ==
    IF size_bytes <= KiB
    THEN <<ToString(size_bytes), " B">>
    ELSE IF size_bytes <= MiB
    THEN Fixed1(size_bytes, KiB) \o <<" KB">>
    ELSE IF size_bytes <= GiB
    THEN Fixed1(size_bytes, MiB) \o <<" MB">>
    ELSE Fixed1(size_bytes, GiB) \o <<" GB">>

\* utils.format_file_size
format_file_size(size_bytes) ==
    IF size_bytes < KiB
    THEN <<ToString(size_bytes), " B">>
    ELSE IF size_bytes < MiB
    THEN Fixed1(size_bytes, KiB) \o <<" KB">>
    ELSE IF size_bytes < GiB
    THEN Fixed1(size_bytes, MiB) \o <<" MB">>
    ELSE Fixed1(size_bytes, GiB) \o <<" GB">>

\* ------------------------------------------------------------ ffmpeg.probe
\* a key that is absent from a dict of the probe result
Missing == "<missing>"

\* the placeholder for absent values (converter.py:202-206)
Unknown == "unknown"

\* get_file_info's error text (converter.py:212)
MsgInfoFailed == "failed to get the file information: "

\* a stream of the probe result
Stream(codec_type, codec_name, bit_rate, sample_rate) ==
    [codec_type |-> codec_type, codec_name |-> codec_name,
     bit_rate |-> bit_rate, sample_rate |-> sample_rate]

VideoStream == Stream("video", "h264", Missing, Missing)

AudioStream == Stream("audio", "aac", "128000", "44100")

BareAudioStream == Stream("audio", Missing, Missing, Missing)

SubtitleStream == Stream("subtitle", "mov_text", Missing, Missing)

UntypedStream == Stream(Missing, "bin_data", Missing, Missing)

StreamKinds ==
    {VideoStream, AudioStream, BareAudioStream, SubtitleStream, UntypedStream}

\* the format section of the probe result
Format(size, duration, format_name) ==
    [size |-> size, duration |-> duration, format_name |-> format_name]

\* probe.get("format", {}) of a result without format section
NoFormat == Format(Missing, Missing, Missing)

\* the result of ffmpeg.probe: a document, or an exception
Probe(has_streams, streams, format) ==
    [ok |-> TRUE, text |-> <<>>, has_streams |-> has_streams,
     streams |-> streams, format |-> format]

ProbeError(text) ==
    [ok |-> FALSE, text |-> text, has_streams |-> FALSE, streams |-> <<>>,
     format |-> NoFormat]

\* a float: a number of tenths, or not-a-number
Float(tenths) == [nan |-> FALSE, tenths |-> tenths]

NaN == [nan |-> TRUE, tenths |-> 0]

Parsed(val) == [ok |-> TRUE, val |-> val]

\* int(format_info.get("size", 0)) on the size texts of the model
ParseInt(text) ==
    CASE text = Missing -> Parsed(0)
      [] text = "0" -> Parsed(0)
      [] text = "1536" -> Parsed(1536)
      [] text = "10485760" -> Parsed(10485760)
      [] OTHER -> [ok |-> FALSE, val |-> 0]

\* float(format_info.get("duration", 0)) on the duration texts of the model
ParseFloat(text) ==
    CASE text = Missing -> Parsed(Float(0))
      [] text = "0" -> Parsed(Float(0))
      [] text = "120.5" -> Parsed(Float(1205))
      [] text = "3661.9" -> Parsed(Float(36619))
      [] text = "nan" -> Parsed(NaN)
      [] OTHER -> [ok |-> FALSE, val |-> NaN]

\* dict.get(key, default)
Get(value, default) == IF value = Missing THEN default ELSE value

\* next(stream for stream in streams if stream["codec_type"] == type):
\* the generator stops at the first match, and raises KeyError at the first
\* stream without codec_type that it reaches before a match
FirstIndex(streams, type) ==
    LET hits == {i \in DOMAIN streams :
                    streams[i].codec_type \in {type, Missing}}
    IN  IF hits = {} THEN 0
        ELSE CHOOSE i \in hits : \A j \in hits : i <= j

\* the stream found: raised (KeyError), or the stream, or {} as default
NextStream(streams, type) ==
    LET i == FirstIndex(streams, type)
    IN  IF i = 0
        THEN [raised |-> FALSE, stream |-> Stream(Missing, Missing, Missing, Missing)]
        ELSE IF streams[i].codec_type = Missing
        THEN [raised |-> TRUE, stream |-> streams[i]]
        ELSE [raised |-> FALSE, stream |-> streams[i]]

\* except Exception as e: return {"error": ...}
InfoError(text) == [error |-> <<MsgInfoFailed>> \o text]

get_file_info_parse_unguarded(probe, file_path) ==
    IF ~probe.ok THEN InfoError(probe.text)
    ELSE IF ~probe.has_streams THEN InfoError(<<"'streams'">>)
    ELSE
      LET video_info == NextStream(probe.streams, "video")
          audio_info == NextStream(probe.streams, "audio")
          size == ParseInt(probe.format.size)
          duration == ParseFloat(probe.format.duration)
      IN  IF video_info.raised \/ audio_info.raised
          THEN InfoError(<<"'codec_type'">>)
          ELSE [filename |-> file_path.name,
                size |-> format_file_size(size.val),
                duration |-> duration.val,
                format_name |-> Get(probe.format.format_name, Unknown),
                video_codec |-> Get(video_info.stream.codec_name, Unknown),
                audio_codec |-> Get(audio_info.stream.codec_name, Unknown),
                audio_bitrate |-> Get(audio_info.stream.bit_rate, Unknown),
                sample_rate |-> Get(audio_info.stream.sample_rate, Unknown)]

\* VideoToAudioConverter.get_file_info
get_file_info(probe, file_path) ==
    IF ~probe.ok THEN InfoError(probe.text)
    ELSE IF ~probe.has_streams THEN InfoError(<<"'streams'">>)
    ELSE
      LET video_info == NextStream(probe.streams, "video")
          audio_info == NextStream(probe.streams, "audio")
          size == ParseInt(probe.format.size)
          duration == ParseFloat(probe.format.duration)
      IN  IF video_info.raised \/ audio_info.raised
          THEN InfoError(<<"'codec_type'">>)
          ELSE IF ~size.ok
          THEN InfoError(<<"invalid literal for int() with base 10">>)
          ELSE IF ~duration.ok
          THEN InfoError(<<"could not convert string to float">>)
          ELSE [filename |-> file_path.name,
                size |-> format_file_size(size.val),
                duration |-> duration.val,
                format_name |-> Get(probe.format.format_name, Unknown),
                video_codec |-> Get(video_info.stream.codec_name, Unknown),
                audio_codec |-> Get(audio_info.stream.codec_name, Unknown),
                audio_bitrate |-> Get(audio_info.stream.bit_rate, Unknown),
                sample_rate |-> Get(audio_info.stream.sample_rate, Unknown)]

\* ------------------------------------------------ utils.get_video_files
\* the code points of a chunk of a file name
CharCodes(chunk) ==
    CASE chunk = "a" -> <<97>>
      [] chunk = "b" -> <<98>>
      [] chunk = "c" -> <<99>>
      [] chunk = "." -> <<46>>
      [] chunk = "mp4" -> <<109, 112, 52>>
      [] chunk = "MP4" -> <<77, 80, 52>>
      [] chunk = "Avi" -> <<65, 118, 105>>
      [] chunk = "mkv" -> <<109, 107, 118>>
      [] chunk = "tar" -> <<116, 97, 114>>
      [] chunk = "ts" -> <<116, 115>>
      [] chunk = "txt" -> <<116, 120, 116>>
      [] chunk = "TXT" -> <<84, 88, 84>>

RECURSIVE NameCodes(_)
NameCodes(name) ==
    IF name = <<>> THEN <<>>
    ELSE CharCodes(Head(name)) \o NameCodes(Tail(name))

\* s < t for strings, as sequences of code points
LexLess(s, t) ==
    \E k \in 1..Len(t) :
        /\ k <= Len(s) + 1
        /\ \A i \in 1..(k - 1) : s[i] = t[i]
        /\ (k = Len(s) + 1 \/ s[k] < t[k])

\* p < q for paths of one directory
PathLess(p, q) == LexLess(NameCodes(p.name), NameCodes(q.name))

\* sorted(paths)
RECURSIVE Sorted(_)
Sorted(paths) ==
    IF paths = {} THEN <<>>
    ELSE LET first == CHOOSE p \in paths :
                        \A q \in paths \ {p} : PathLess(p, q)
         IN  <<first>> \o Sorted(paths \ {first})

get_video_files_any_entry(directory) ==
    IF ~directory.exists \/ ~directory.is_dir THEN <<>>
    ELSE Sorted({Path("movie", e.name) :
                    e \in {x \in directory.entries :
                            is_supported_video_format(Path("movie", x.name))}})

\* get_video_files(Path("movie"))
get_video_files(directory) ==
    IF ~directory.exists \/ ~directory.is_dir THEN <<>>
    ELSE Sorted({Path("movie", e.name) :
                    e \in {x \in directory.entries :
                            /\ x.is_file
                            /\ is_supported_video_format(Path("movie", x.name))}})

\* --------------------------------------------- the utility functions alone
\* Each behaviour applies one function to one argument.
\* longest stream list of a probe result
MaxStreams == 3

\* durations up to this many tenths of a second are all tried
MaxShortDuration == 1300

\* byte counts up to this are all tried
MaxSmallSize == 1100

\* seconds given to format_duration, in tenths
DurationInputs ==
    (0..MaxShortDuration) \cup (35900..36700)
        \cup {72000, 863999, 3599999, 3600000}

\* byte counts given to format_file_size
SizeInputs ==
    (0..MaxSmallSize)
        \cup {1280, 1536, 1792, 10239, 1048063, 1048524, 1048575, 1048576,
              1048577, 1310720, 1572864, 10485760, 1073741823, 1073741824,
              1207959552, 1610612736, 2147483647}

\* arguments of check_disk_space
UtilDiskUsages ==
    {DiskUsage(n) : n \in {0, 262144, 10 * MiB - 1, 10 * MiB, 10 * MiB + 1,
                           50 * MiB, 100 * MiB - 1, 100 * MiB, GiB}}
        \cup {DiskUsageError(t) : t \in OSErrorTexts}

UtilRequired == {0, 1, 10, 11, 100}

\* results of ffmpeg.probe
Probes ==
    {ProbeError(<<"ffprobe error (see stderr output for detail)">>),
     Probe(FALSE, <<>>, NoFormat)}
        \cup {Probe(TRUE, st, f) :
                st \in SeqsUpTo(StreamKinds, MaxStreams),
                f \in {NoFormat}
                    \cup {Format(sz, d, "mp4") :
                            sz \in {Missing, "1536", "10485760", "12.5"},
                            d \in {"120.5", "3661.9", "N/A", "nan"}}}

ApplyFormatDuration ==
    /\ u_fn = "none"
    /\ \E seconds \in DurationInputs :
        /\ u_fn' = "format_duration"
        /\ u_arg' = seconds
        /\ u_res' = format_duration(seconds)
    /\ UNCHANGED <<pc, self, input_path, progress_callback, input_exists,
                   output_path, stat_result, estimated_output_size,
                   disk_usage, cmd, stderr, outcome, trace, callback_calls,
                   outfiles, running, callback_raised, target_existed>>
    /\ UNCHANGED cliVars

ApplyFormatFileSize ==
    /\ u_fn = "none"
    /\ \E size_bytes \in SizeInputs :
        /\ u_fn' = "format_file_size"
        /\ u_arg' = size_bytes
        /\ u_res' = format_file_size(size_bytes)
    /\ UNCHANGED <<pc, self, input_path, progress_callback, input_exists,
                   output_path, stat_result, estimated_output_size,
                   disk_usage, cmd, stderr, outcome, trace, callback_calls,
                   outfiles, running, callback_raised, target_existed>>
    /\ UNCHANGED cliVars

ApplyCheckDiskSpace ==
    /\ u_fn = "none"
    /\ \E du \in UtilDiskUsages, required_space_mb \in UtilRequired :
        /\ u_fn' = "check_disk_space"
        /\ u_arg' = [du |-> du, required_space_mb |-> required_space_mb]
        /\ u_res' = check_disk_space(du, required_space_mb)
    /\ UNCHANGED <<pc, self, input_path, progress_callback, input_exists,
                   output_path, stat_result, estimated_output_size,
                   disk_usage, cmd, stderr, outcome, trace, callback_calls,
                   outfiles, running, callback_raised, target_existed>>
    /\ UNCHANGED cliVars

ApplyGetFileInfo ==
    /\ u_fn = "none"
    /\ \E probe \in Probes :
        /\ u_fn' = "get_file_info"
        /\ u_arg' = probe
        /\ u_res' = get_file_info(probe, Path("movie", <<"a", ".", "mp4">>))
    /\ UNCHANGED <<pc, self, input_path, progress_callback, input_exists,
                   output_path, stat_result, estimated_output_size,
                   disk_usage, cmd, stderr, outcome, trace, callback_calls,
                   outfiles, running, callback_raised, target_existed>>
    /\ UNCHANGED cliVars

\* file names: the names of the conversions, and names with two dots in a
\* row, with characters outside ASCII (glossed), and of earlier outputs
UtilNames ==
    Names \cup
    { <<"a", ".", ".", "mp4">>, <<".", ".">>, <<"U+52D5U+753B", ".", "mp4">>,
      <<"U+52D5", ".", "U+753B", ".", "MOV">>, <<"a", ".", "mp3">>,
      <<"a", ".", "mp4", ".", "mp3">>, <<".", "mp3">>, <<"a", " ", "b", ".", "mkv">> }

UtilParents == {"movie", "other"}

UtilOutputDirs == {"mp3", "out"}

\* entries a directory is filled with
MaxEntries == 4

EntryPool ==
    { Entry(<<"a", ".", "mp4">>, TRUE), Entry(<<"b", ".", "mp4">>, TRUE),
      Entry(<<"c", ".", "mp4">>, TRUE), Entry(<<"a", ".", "Avi">>, TRUE),
      Entry(<<"a", ".", "MP4">>, TRUE), Entry(<<"a", ".", "txt">>, TRUE),
      Entry(<<"b", ".", "mkv">>, FALSE), Entry(<<"a", ".", "tar", ".", "ts">>, TRUE),
      Entry(<<"a">>, TRUE) }

UtilDirs ==
    {NoDir, NotADir}
        \cup {Dir(es) : es \in {x \in SUBSET EntryPool : Cardinality(x) <= MaxEntries}}

\* get_output_path applied to a path, and again to its result
ApplyGetOutputPath ==
    /\ u_fn = "none"
    /\ \E parent \in UtilParents, name \in UtilNames, output_dir \in UtilOutputDirs :
        /\ u_fn' = "get_output_path"
        /\ u_arg' = [input_path |-> Path(parent, name), output_dir |-> output_dir]
        /\ u_res' = [once |-> get_output_path(Path(parent, name), output_dir),
                     twice |-> get_output_path(
                                get_output_path(Path(parent, name), output_dir),
                                output_dir)]
    /\ UNCHANGED <<pc, self, input_path, progress_callback, input_exists,
                   output_path, stat_result, estimated_output_size,
                   disk_usage, cmd, stderr, outcome, trace, callback_calls,
                   outfiles, running, callback_raised, target_existed>>
    /\ UNCHANGED cliVars

ApplyGetVideoFiles ==
    /\ u_fn = "none"
    /\ \E directory \in UtilDirs :
        /\ u_fn' = "get_video_files"
        /\ u_arg' = directory
        /\ u_res' = get_video_files(directory)
    /\ UNCHANGED <<pc, self, input_path, progress_callback, input_exists,
                   output_path, stat_result, estimated_output_size,
                   disk_usage, cmd, stderr, outcome, trace, callback_calls,
                   outfiles, running, callback_raised, target_existed>>
    /\ UNCHANGED cliVars

NextUtil ==
    \/ ApplyFormatDuration
    \/ ApplyFormatFileSize
    \/ ApplyCheckDiskSpace
    \/ ApplyGetFileInfo
    \/ ApplyGetOutputPath
    \/ ApplyGetVideoFiles

SpecUtil == Init /\ [][NextUtil]_vars

\* ------------------------------------------------- claims on the utilities
Applied(fn) == u_fn = fn

InfoFields ==
    {"filename", "size", "duration", "format_name", "video_codec",
     "audio_codec", "audio_bitrate", "sample_rate"}

\* the size and duration texts that int() and float() accept
C11_IntTexts == {Missing, "0", "1536", "10485760"}

C11_FloatTexts == {Missing, "0", "120.5", "3661.9", "nan"}

C11_HasType(streams, i, type) ==
    \E j \in 1..(i - 1) : streams[j].codec_type = type

\* some stream has no codec_type
C11_SomeUntyped(probe) ==
    \E i \in DOMAIN probe.streams : probe.streams[i].codec_type = Missing

\* a stream without codec_type lies before the first video stream or before
\* the first audio stream
C11_UntypedReached(probe) ==
    \E i \in DOMAIN probe.streams :
        /\ probe.streams[i].codec_type = Missing
        /\ \/ ~C11_HasType(probe.streams, i, "video")
           \/ ~C11_HasType(probe.streams, i, "audio")

C11_OtherFailure(probe) ==
    \/ ~probe.ok
    \/ ~probe.has_streams
    \/ probe.format.size \notin C11_IntTexts
    \/ probe.format.duration \notin C11_FloatTexts

\* C11 as stated: get_file_info returns a value with only `error` for a
\* probe error, a missing streams list, any stream without codec_type, a
\* non-numeric size or duration, and the eight fields otherwise.
C11_Original ==
    Applied("get_file_info") =>
        IF C11_OtherFailure(u_arg) \/ C11_SomeUntyped(u_arg)
        THEN DOMAIN u_res = {"error"}
        ELSE DOMAIN u_res = InfoFields

\* C11 as amended: get_file_info returns a value with only `error` for a
\* probe error, a missing streams list, a stream without codec_type that
\* the search for the first video or the first audio stream reaches, a
\* non-numeric size or duration; otherwise the eight fields and no error,
\* with the placeholder where there is no video or no audio stream.
C11_ErrorValueOrEightFields ==
    Applied("get_file_info") =>
        IF C11_OtherFailure(u_arg) \/ C11_UntypedReached(u_arg)
        THEN DOMAIN u_res = {"error"} /\ u_res.error[1] = MsgInfoFailed
        ELSE /\ DOMAIN u_res = InfoFields
             /\ (\A i \in DOMAIN u_arg.streams :
                    u_arg.streams[i].codec_type # "video")
                  => u_res.video_codec = Unknown
             /\ (\A i \in DOMAIN u_arg.streams :
                    u_arg.streams[i].codec_type # "audio")
                  => (u_res.audio_codec = Unknown
                      /\ u_res.audio_bitrate = Unknown
                      /\ u_res.sample_rate = Unknown)

C11_Witness ==
    /\ Applied("get_file_info")
    /\ u_arg.ok
    /\ u_arg.streams = <<VideoStream, UntypedStream>>
    /\ u_arg.format = Format("1536", "120.5", "mp4")
    /\ DOMAIN u_res = {"error"}

\* C15: check_disk_space raises InsufficientSpaceError exactly when the free
\* space in MB is strictly below the required MB or the query fails; the
\* shortage message holds the required and the available figure; in every
\* other case it returns normally.
C15_RaisesExactlyOnShortageOrQueryError ==
    Applied("check_disk_space") =>
        LET du == u_arg.du
            required == u_arg.required_space_mb
            short == du.ok /\ du.free < required * MiB
        IN  /\ u_res.raised <=> (~du.ok \/ short)
            /\ u_res.raised => u_res.exc.type = "InsufficientSpaceError"
            /\ ~u_res.raised => u_res = Passed
            /\ short =>
                 /\ Contains(u_res.exc.message, <<ToString(required)>>)
                 /\ Contains(u_res.exc.message, FormatMB1(du.free))
            /\ (short /\ du.free = 50 * MiB /\ required = 100) =>
                 Join(u_res.exc.message) =
                    MsgShortage \o "100" \o MsgAvailable \o "50.0MB"
            /\ (short /\ du.free = 262144) =>
                 Contains(u_res.exc.message, <<"0", ".", "2">>)
            /\ ~du.ok => Contains(u_res.exc.message, du.text)

C15_Witness ==
    /\ Applied("check_disk_space")
    /\ u_arg.du = DiskUsage(10 * MiB)
    /\ u_arg.required_space_mb = 10
    /\ u_res = Passed

\* the pre-flight space check of this call ran with a free-space figure
C18_Checked ==
    /\ Count(trace, "check_disk_space") > 0
    /\ disk_usage.ok

\* the call failed in the pre-flight check
C18_PreflightFailed ==
    /\ Finished
    /\ RaisedType("InsufficientSpaceError")
    /\ Count(trace, "run") = 0

\* C18 as stated: the call fails the pre-flight check exactly when the free
\* MB are below max(inputSizeMB * 0.15, 10).  In bytes, times 20:
\* 20 * free < max(3 * size, 200 MiB).
C18_Original ==
    C18_Checked =>
        (C18_PreflightFailed <=>
            20 * disk_usage.free < Max(3 * stat_result.size, 200 * MiB))

\* C18 as amended: the required figure is max(floor(inputSizeMB * 0.15), 10),
\* the product being truncated to an integer; the call fails the pre-flight
\* check exactly when the free MB are below that value.
C18_RequiredSpaceTruncated ==
    C18_Checked =>
        LET floor15 == CHOOSE k \in 0..200 :
                /\ k * 20 * MiB <= 3 * stat_result.size
                /\ 3 * stat_result.size < (k + 1) * 20 * MiB
            required == IF floor15 >= 10 THEN floor15 ELSE 10
        IN  /\ estimated_output_size = required
            /\ (disk_usage.free < required * MiB) => C18_PreflightFailed
            /\ (disk_usage.free >= required * MiB) =>
                    (outcome.status = "raised" =>
                        outcome.exc.type # "InsufficientSpaceError"
                        \/ Count(trace, "run") > 0)

C18_Witness ==
    /\ C18_Checked
    /\ stat_result.size = 70 * MiB
    /\ disk_usage.free = 10 * MiB
    /\ pc = "build"

\* f"{n:02d}" as the claim reads it
C19_Padded(n) == IF n <= 9 THEN "0" \o ToString(n) ELSE ToString(n)

\* C19: for non-negative s, format_duration(s) takes hours = floor(s/3600),
\* minutes = floor((s mod 3600)/60), secs = floor(s mod 60), truncating the
\* fraction, and renders HH:MM:SS when hours > 0 and MM:SS otherwise, so
\* minutes and secs are in 0..59 and the three add up to floor(s).
C19_DurationTruncated ==
    Applied("format_duration") =>
        LET whole == u_arg \div Tenth
            hours == whole \div 3600
            minutes == (whole % 3600) \div 60
            secs == whole % 60
        IN  /\ minutes \in 0..59 /\ secs \in 0..59
            /\ hours * 3600 + minutes * 60 + secs = whole
            /\ u_res = IF hours > 0
                       THEN <<C19_Padded(hours), ":", C19_Padded(minutes),
                              ":", C19_Padded(secs)>>
                       ELSE <<C19_Padded(minutes), ":", C19_Padded(secs)>>
            /\ u_arg = 0 => Join(u_res) = "00:00"
            /\ u_arg = 450 => Join(u_res) = "00:45"
            /\ u_arg = 599 => Join(u_res) = "00:59"
            /\ u_arg = 600 => Join(u_res) = "01:00"
            /\ u_arg = 1250 => Join(u_res) = "02:05"
            /\ u_arg = 35999 => Join(u_res) = "59:59"
            /\ u_arg = 36610 => Join(u_res) = "01:01:01"
            /\ u_arg = 72000 => Join(u_res) = "02:00:00"

C19_Witness ==
    /\ Applied("format_duration")
    /\ u_arg = 36619
    /\ Join(u_res) = "01:01:01"

C20_Digits == {ToString(d) : d \in 0..9}

\* the rendered number is n / unit to one decimal: its tenths t satisfy
\* |t - 10 n / unit| <= 1/2 (scale divides unit and n, to stay in 32 bits)
C20_OneDecimalOf(res, n, unit, scale) ==
    LET u == unit \div scale
        q == (n \div scale) \div u
        r == (n \div scale) % u
    IN  \E k \in {q, q + 1}, d \in 0..9 :
            /\ res[1] = ToString(k)
            /\ res[3] = ToString(d)
            /\ 2 * (10 * r - (10 * (k - q) + d) * u) <= u
            /\ 2 * ((10 * (k - q) + d) * u - 10 * r) <= u

\* C20: format_file_size(n) picks the unit by thresholds at powers of 1024
\* (B below 1024, KB below 1024^2, MB below 1024^3, GB from there), B as
\* the integer n and KB, MB, GB with exactly one decimal digit.
C20_UnitByThresholds ==
    Applied("format_file_size") =>
        LET n == u_arg
            unit == IF n < KiB THEN " B" ELSE IF n < MiB THEN " KB"
                    ELSE IF n < GiB THEN " MB" ELSE " GB"
        IN  /\ u_res[Len(u_res)] = unit
            /\ n < KiB => u_res = <<ToString(n), " B">>
            /\ n >= KiB =>
                 /\ Len(u_res) = 4
                 /\ u_res[2] = "."
                 /\ u_res[3] \in C20_Digits
            /\ (n >= KiB /\ n < MiB) => C20_OneDecimalOf(u_res, n, KiB, 1)
            /\ (n >= MiB /\ n < GiB) => C20_OneDecimalOf(u_res, n, MiB, 1)
            /\ (n >= GiB /\ n % MiB = 0) =>
                    C20_OneDecimalOf(u_res, n, GiB, MiB)
            /\ n = 0 => Join(u_res) = "0 B"
            /\ n = 1023 => Join(u_res) = "1023 B"
            /\ n = 1024 => Join(u_res) = "1.0 KB"
            /\ n = 1536 => Join(u_res) = "1.5 KB"
            /\ n = 1048576 => Join(u_res) = "1.0 MB"
            /\ n = 1572864 => Join(u_res) = "1.5 MB"
            /\ n = 1073741824 => Join(u_res) = "1.0 GB"

C20_Witness ==
    /\ Applied("format_file_size")
    /\ u_arg = 1048575
    /\ Join(u_res) = "1024.0 KB"

\* C21: get_output_path(p, d) is d/(stem(p) + ".mp3") for every file name,
\* whatever its extension and its dots; the result has the suffix .mp3 and
\* deriving again from the result gives the result.
C21_OutputPathIdempotent ==
    Applied("get_output_path") =>
        LET name == u_arg.input_path.name
            d == u_arg.output_dir
            dots == Positions(name, ".")
        IN  /\ u_res.once.parent = d
            /\ Len(u_res.once.name) >= 3
            /\ SubSeq(u_res.once.name, Len(u_res.once.name) - 1,
                      Len(u_res.once.name)) = <<".", "mp3">>
            /\ Suffix(u_res.once.name) = <<".", "mp3">>
            /\ u_res.twice = u_res.once
            \* the stem: the name without its last extension, if it has one
            /\ LET stem == SubSeq(u_res.once.name, 1, Len(u_res.once.name) - 2)
               IN  /\ dots = {} => stem = name
                   /\ (\E i \in dots : i # 1 /\ i # Len(name)
                            /\ \A j \in dots : j <= i) =>
                        (\E i \in dots : (\A j \in dots : j <= i)
                            /\ stem = SubSeq(name, 1, i - 1))
                   /\ (\E i \in dots : (i = 1 \/ i = Len(name))
                            /\ \A j \in dots : j <= i) => stem = name
            /\ name = <<"a", ".", "tar", ".", "ts">> =>
                    u_res.once.name = <<"a", ".", "tar", ".", "mp3">>
            /\ name = <<"a", ".", "MP4">> => u_res.once.name = <<"a", ".", "mp3">>
            /\ name = <<"a">> => u_res.once.name = <<"a", ".", "mp3">>
            /\ name = <<".", "mp4">> => u_res.once.name = <<".", "mp4", ".", "mp3">>
            /\ name = <<"a", ".", "mp3">> => u_res.once.name = name
            /\ name = <<"U+52D5", ".", "U+753B", ".", "MOV">> =>
                    u_res.once.name = <<"U+52D5", ".", "U+753B", ".", "mp3">>

C21_Witness ==
    /\ Applied("get_output_path")
    /\ u_arg.input_path = Path("other", <<"a", ".", "tar", ".", "ts">>)
    /\ u_arg.output_dir = "out"
    /\ u_res.once = Path("out", <<"a", ".", "tar", ".", "mp3">>)
    /\ u_res.twice = u_res.once

\* the elements of a sequence
C22_Range(seq) == {seq[i] : i \in DOMAIN seq}

\* C22: get_video_files(dir) returns exactly the regular files directly in
\* dir whose extension is supported, case-insensitively, each once, in
\* ascending lexicographic order of the file name, no subdirectory among
\* them; for a dir that does not exist or is no directory it returns the
\* empty list.
C22_ListingExactSortedFlat ==
    Applied("get_video_files") =>
        /\ (~u_arg.exists \/ ~u_arg.is_dir) => u_res = <<>>
        /\ (u_arg.exists /\ u_arg.is_dir) =>
            /\ C22_Range(u_res) =
                    {Path("movie", e.name) :
                        e \in {x \in u_arg.entries :
                                /\ x.is_file
                                /\ Lower(Suffix(x.name)) \in SUPPORTED_VIDEO_FORMATS}}
            /\ Len(u_res) = Cardinality(C22_Range(u_res))
            /\ \A i \in DOMAIN u_res : \A j \in DOMAIN u_res :
                    i < j => LexLess(NameCodes(u_res[i].name),
                                     NameCodes(u_res[j].name))
        /\ u_arg.entries = {Entry(<<"c", ".", "mp4">>, TRUE),
                            Entry(<<"a", ".", "mp4">>, TRUE),
                            Entry(<<"b", ".", "mp4">>, TRUE)} =>
                u_res = <<Path("movie", <<"a", ".", "mp4">>),
                          Path("movie", <<"b", ".", "mp4">>),
                          Path("movie", <<"c", ".", "mp4">>)>>

C22_Witness ==
    /\ Applied("get_video_files")
    /\ u_arg.entries = {Entry(<<"a", ".", "mp4">>, TRUE),
                        Entry(<<"a", ".", "MP4">>, TRUE),
                        Entry(<<"a", ".", "txt">>, TRUE),
                        Entry(<<"b", ".", "mkv">>, FALSE)}
    /\ u_res = <<Path("movie", <<"a", ".", "MP4">>),
                 Path("movie", <<"a", ".", "mp4">>)>>

\* ================================================================= main.py
\* utils.py:72
MsgFfmpegNotInstalled == "FFmpeg is not installed"

\* how subprocess.run(["ffmpeg", "-version"], check=True) ends: exit code 0,
\* a non-zero exit code, no such binary, or another OSError
VersionQueries ==
    {"ok", "CalledProcessError", "FileNotFoundError", "PermissionError"}

\* a function returned v
Value(v) == [raised |-> FALSE, value |-> v, exc |-> NoExc]

\* a function raised exc
Thrown(exc) == [raised |-> TRUE, value |-> FALSE, exc |-> exc]

\* try: subprocess.run(...); return True
\* except (CalledProcessError, FileNotFoundError): return False
check_ffmpeg_installed(query) ==
    IF query = "ok" THEN Value(TRUE)
    ELSE IF query \in {"CalledProcessError", "FileNotFoundError"}
    THEN Value(FALSE)
    ELSE Thrown(RawException(query, <<"[Errno 13] ", PermissionDenied>>))

validate_ffmpeg_unchecked(query) ==
    LET installed == check_ffmpeg_installed(query)
    IN  IF installed.raised THEN Raised(installed.exc) ELSE Passed

\* if not check_ffmpeg_installed(): raise FFmpegNotFoundError
validate_ffmpeg(query) ==
    LET installed == check_ffmpeg_installed(query)
    IN  IF installed.raised THEN Raised(installed.exc)
        ELSE IF ~installed.value
        THEN Raised(VideoConverterError("FFmpegNotFoundError",
                <<MsgFfmpegNotInstalled>>, NoPath, NoCause))
        ELSE Passed

\* what can be at the output directory's path
DirStates == {"absent", "dir", "file"}

\* output_dir.mkdir(parents=True, exist_ok=True): FileExistsError when the
\* path is a regular file
create_output_directory(state) ==
    IF state = "file"
    THEN [raised |-> TRUE, state |-> state,
          exc |-> RawException("FileExistsError", <<"[Errno 17] File exists">>)]
    ELSE [raised |-> FALSE, state |-> "dir", exc |-> NoExc]

\* no engine has been constructed
NoEngine == [output_dir |-> "", bitrate |-> ""]

\* VideoToAudioConverter.__init__(output_dir, bitrate), given how the
\* version query ends and what is at the output directory's path
VideoToAudioConverter(output_dir, bitrate, query, state) ==
    LET validated == validate_ffmpeg(query)
        created == create_output_directory(state)
    IN  IF validated.raised
        THEN [raised |-> TRUE, exc |-> validated.exc, engine |-> NoEngine,
              state |-> state, mkdir |-> FALSE]
        ELSE IF created.raised
        THEN [raised |-> TRUE, exc |-> created.exc, engine |-> NoEngine,
              state |-> created.state, mkdir |-> TRUE]
        ELSE [raised |-> FALSE, exc |-> NoExc,
              engine |-> [output_dir |-> output_dir, bitrate |-> bitrate],
              state |-> created.state, mkdir |-> TRUE]

\* list_video_files_table: the table is printed, the listing returned
list_video_files_table(movie_dir) == get_video_files(movie_dir)

\* main.py:259
ValidBitrates == {"128k", "192k", "256k", "320k"}

\* input("...").strip().lower() on the answers of the model
StripLower(raw) ==
    CASE raw = " QUIT " -> "quit"
      [] raw = "ALL" -> "all"
      [] OTHER -> raw

\* int(user_input) succeeds
CanParseInt(text) == text \in {"0", "1", "2", "3", "4"}

\* int(user_input)
IntValue(text) ==
    CASE text = "0" -> 0
      [] text = "1" -> 1
      [] text = "2" -> 2
      [] text = "3" -> 3
      [] text = "4" -> 4

\* ------------------------------------------------- inputs of the command
\* prompts answered in one interactive session
MaxRounds == 2

CliBitrates == {"192k", "64k"}

CliFiles ==
    {NoPath, Path("movie", <<"a", ".", "mp4">>),
     Path("movie", <<"a", ".", "txt">>)}

\* --info is read in file mode only: without --file it keeps its default
ArgSets ==
    {a \in {Args(b, l, f, i, "mp3") :
                b \in CliBitrates, l \in BOOLEAN, f \in CliFiles,
                i \in BOOLEAN} :
        a.file = NoPath => ~a.info}

MovieDirs ==
    {NoDir, NotADir,
     Dir({Entry(<<"a", ".", "txt">>, TRUE)}),
     Dir({Entry(<<"a", ".", "mp4">>, TRUE), Entry(<<"a", ".", "Avi">>, TRUE),
          Entry(<<"b", ".", "mp4">>, TRUE), Entry(<<"a", ".", "txt">>, TRUE),
          Entry(<<"b", ".", "mkv">>, FALSE)})}

UserInputs == {"0", "exit", " QUIT ", "ALL", "1", "2", "4", "abc", ""}

CliProbes ==
    {ProbeError(<<"ffprobe error (see stderr output for detail)">>),
     Probe(TRUE, <<VideoStream, AudioStream>>, Format("1536", "120.5", "mp4")),
     Probe(TRUE, <<VideoStream, AudioStream>>, Format("1536", "nan", "mp4"))}

\* ------------------------------------------------------ the command's state
localVars == <<pc, input_path, progress_callback, input_exists, output_path,
               stat_result, estimated_output_size, disk_usage, cmd, stderr,
               outcome, trace, callback_calls, callback_raised,
               target_existed>>

\* no call of convert_file is in progress and none has left its locals
LocalsIdle ==
    /\ pc = "idle"
    /\ input_path = NoPath
    /\ progress_callback = "None"
    /\ input_exists = FALSE
    /\ output_path = NoPath
    /\ stat_result = NoStat
    /\ estimated_output_size = 0
    /\ disk_usage = NoDiskUsage
    /\ cmd = NoCommand
    /\ stderr = <<>>
    /\ outcome = Pending
    /\ trace = <<>>
    /\ callback_calls = <<>>
    /\ callback_raised = FALSE
    /\ target_existed = FALSE

\* the locals of the finished convert_file call are dropped
DropLocals ==
    /\ pc' = "idle"
    /\ input_path' = NoPath
    /\ progress_callback' = "None"
    /\ input_exists' = FALSE
    /\ output_path' = NoPath
    /\ stat_result' = NoStat
    /\ estimated_output_size' = 0
    /\ disk_usage' = NoDiskUsage
    /\ cmd' = NoCommand
    /\ stderr' = <<>>
    /\ outcome' = Pending
    /\ trace' = <<>>
    /\ callback_calls' = <<>>
    /\ callback_raised' = FALSE
    /\ target_existed' = FALSE

\* the convert command is started: no engine yet
InitCli ==
    /\ LocalsIdle
    /\ self = NoEngine
    /\ outfiles = {}
    /\ running = 0
    /\ UtilIdle
    /\ cli_pc = "convert"
    /\ args \in ArgSets
    /\ movie \in MovieDirs
    /\ out_dir \in DirStates
    /\ ffmpeg_installed = "unchecked"
    /\ engine_error = NoExc
    /\ video_files = <<>>
    /\ user_input = ""
    /\ idx = 0
    /\ success_count = 0
    /\ results = <<>>
    /\ csf = NoCsf
    /\ exit_code = NoExit
    /\ cli_ops = {}
    /\ rounds = 0

\* raise typer.Exit(code), or the command returns (code 0)
Exit(code) ==
    /\ exit_code' = code
    /\ cli_pc' = "exit"

\* --------------------------------------------------- the command's actions
ConvertCheckBitrate_unchecked ==
    /\ cli_pc = "convert"
    /\ cli_pc' = IF args.list_files THEN "list_only" ELSE "construct"
    /\ UNCHANGED <<args, movie, out_dir, ffmpeg_installed, engine_error,
                   video_files, user_input, idx, success_count, results,
                   csf, exit_code, cli_ops, rounds>>
    /\ UNCHANGED <<localVars, self, outfiles, running, utilVars>>

\* convert: if bitrate not in (...): raise typer.Exit(1)
ConvertCheckBitrate ==
    /\ cli_pc = "convert"
    /\ IF args.bitrate \notin ValidBitrates
       THEN /\ Exit(1)
            /\ cli_ops' = cli_ops \cup {"invalid_bitrate"}
       ELSE /\ cli_pc' = IF args.list_files THEN "list_only" ELSE "construct"
            /\ UNCHANGED <<exit_code, cli_ops>>
    /\ UNCHANGED <<args, movie, out_dir, ffmpeg_installed, engine_error,
                   video_files, user_input, idx, success_count, results,
                   csf, rounds>>
    /\ UNCHANGED <<localVars, self, outfiles, running, utilVars>>

\* convert: if list_files: list_video_files_table(movie_dir); return
ConvertListOnly ==
    /\ cli_pc = "list_only"
    /\ video_files' = list_video_files_table(movie)
    /\ cli_ops' = cli_ops \cup {"list_only"}
    /\ Exit(0)
    /\ UNCHANGED <<args, movie, out_dir, ffmpeg_installed, engine_error,
                   user_input, idx, success_count, results, csf, rounds>>
    /\ UNCHANGED <<localVars, self, outfiles, running, utilVars>>

\* convert: converter = VideoToAudioConverter(output_dir=output,
\* bitrate=bitrate); an exception of the constructor ends the command in
\* `except VideoConverterError` or `except Exception`, both with Exit(1)
ConvertConstruct ==
    /\ cli_pc = "construct"
    /\ \E query \in VersionQueries :
        LET installed == check_ffmpeg_installed(query)
            made == VideoToAudioConverter(args.output, args.bitrate, query,
                                          out_dir)
        IN  /\ ffmpeg_installed' =
                 IF installed.raised THEN "raised"
                 ELSE IF installed.value THEN "True" ELSE "False"
            /\ out_dir' = made.state
            /\ engine_error' = made.exc
            /\ self' = made.engine
            /\ cli_ops' = cli_ops \cup {"construct", "validate_ffmpeg"}
                    \cup (IF made.mkdir THEN {"create_output_directory"}
                          ELSE {})
                    \cup (IF made.raised THEN {"engine_failed"} ELSE {})
            /\ IF made.raised
               THEN Exit(1)
               ELSE cli_pc' = "mode" /\ UNCHANGED exit_code
    /\ UNCHANGED <<args, movie, video_files, user_input, idx, success_count,
                   results, csf, rounds>>
    /\ UNCHANGED <<localVars, outfiles, running, utilVars>>

\* convert: if file: the checks before convert_single_file(file, converter,
\* show_info=info)
ConvertFileMode ==
    /\ cli_pc = "mode"
    /\ args.file # NoPath
    /\ \E file_exists \in BOOLEAN :
        IF ~file_exists
        THEN /\ Exit(1)
             /\ cli_ops' = cli_ops \cup {"file_missing"}
             /\ UNCHANGED csf
        ELSE IF ~is_supported_video_format(args.file)
        THEN /\ Exit(1)
             /\ cli_ops' = cli_ops \cup {"unsupported_file"}
             /\ UNCHANGED csf
        ELSE /\ csf' = Csf(args.file, args.info, "none", "none")
             /\ cli_pc' = "csf_info"
             /\ UNCHANGED <<exit_code, cli_ops>>
    /\ UNCHANGED <<args, movie, out_dir, ffmpeg_installed, engine_error,
                   video_files, user_input, idx, success_count, results,
                   rounds>>
    /\ UNCHANGED <<localVars, self, outfiles, running, utilVars>>

\* convert: else: convert_interactive(converter), up to its loop
ConvertInteractive ==
    /\ cli_pc = "mode"
    /\ args.file = NoPath
    /\ IF ~movie.exists
       THEN /\ Exit(1)
            /\ cli_ops' = cli_ops \cup {"no_movie_dir"}
       ELSE /\ cli_pc' = "listing"
            /\ UNCHANGED <<exit_code, cli_ops>>
    /\ UNCHANGED <<args, movie, out_dir, ffmpeg_installed, engine_error,
                   video_files, user_input, idx, success_count, results,
                   csf, rounds>>
    /\ UNCHANGED <<localVars, self, outfiles, running, utilVars>>

\* convert_interactive, top of the loop: the listing; Exit(0) when empty
InteractiveListing ==
    /\ cli_pc = "listing"
    /\ video_files' = list_video_files_table(movie)
    /\ IF list_video_files_table(movie) = <<>>
       THEN /\ Exit(0)
            /\ cli_ops' = cli_ops \cup {"no_video_files"}
       ELSE /\ cli_pc' = "prompt"
            /\ UNCHANGED <<exit_code, cli_ops>>
    /\ idx' = 0
    /\ success_count' = 0
    /\ results' = <<>>
    /\ UNCHANGED <<args, movie, out_dir, ffmpeg_installed, engine_error,
                   user_input, csf, rounds>>
    /\ UNCHANGED <<localVars, self, outfiles, running, utilVars>>

\* convert_interactive: the answer at the prompt and its dispatch;
\* KeyboardInterrupt at the prompt breaks the loop, the command returns
InteractiveInput ==
    /\ cli_pc = "prompt"
    /\ rounds' = rounds + 1
    /\ \/ /\ Exit(0)
          /\ cli_ops' = cli_ops \cup {"interrupted"}
          /\ UNCHANGED <<user_input, idx, success_count, results, csf>>
       \/ \E raw \in (IF rounds < MaxRounds THEN UserInputs ELSE {"0"}) :
            LET text == StripLower(raw)
            IN  /\ user_input' = text
                /\ IF text \in {"0", "exit", "quit"}
                   THEN /\ Exit(0)
                        /\ UNCHANGED <<idx, success_count, results, csf>>
                   ELSE IF text = "all"
                   THEN /\ success_count' = 0
                        /\ idx' = 1
                        /\ results' = <<>>
                        /\ cli_pc' = "all_next"
                        /\ UNCHANGED <<exit_code, csf>>
                   ELSE IF ~CanParseInt(text)
                   THEN /\ cli_pc' = "listing"
                        /\ UNCHANGED <<exit_code, idx, success_count,
                                       results, csf>>
                   ELSE IF IntValue(text) \in 1..Len(video_files)
                   THEN /\ csf' = Csf(video_files[IntValue(text)], TRUE,
                                      "none", "none")
                        /\ cli_pc' = "csf_info"
                        /\ UNCHANGED <<exit_code, idx, success_count,
                                       results>>
                   ELSE /\ cli_pc' = "listing"
                        /\ UNCHANGED <<exit_code, idx, success_count,
                                       results, csf>>
                /\ UNCHANGED cli_ops
    /\ UNCHANGED <<args, movie, out_dir, ffmpeg_installed, engine_error,
                   video_files>>
    /\ UNCHANGED <<localVars, self, outfiles, running, utilVars>>

\* convert_interactive, 'all': for file_path in video_files, then the
\* summary with success_count
AllNext ==
    /\ cli_pc = "all_next"
    /\ IF idx <= Len(video_files)
       THEN /\ csf' = Csf(video_files[idx], TRUE, "none", "none")
            /\ cli_pc' = "csf_info"
       ELSE /\ cli_pc' = "listing"
            /\ UNCHANGED csf
    /\ UNCHANGED <<args, movie, out_dir, ffmpeg_installed, engine_error,
                   video_files, user_input, idx, success_count, results,
                   exit_code, cli_ops, rounds>>
    /\ UNCHANGED <<localVars, self, outfiles, running, utilVars>>

\* convert_single_file: if show_info: the information display, then
\* converter.convert_file(file_path, print_progress) is entered;
\* format_duration raises ValueError on a not-a-number duration, which
\* `except Exception` turns into return False
CsfShowInfo ==
    /\ cli_pc = "csf_info"
    /\ \E probe \in CliProbes :
        LET info == get_file_info(probe, csf.file_path)
            shown == IF ~csf.show_info THEN "none"
                     ELSE IF "error" \in DOMAIN info THEN "error"
                     ELSE IF info.duration.nan THEN "raised"
                     ELSE "table"
        IN  IF shown = "raised"
            THEN /\ csf' = [csf EXCEPT !.info = shown, !.result = "False"]
                 /\ cli_pc' = "csf_return"
                 /\ cli_ops' = cli_ops \cup {"conversion_failed"}
                 /\ UNCHANGED <<localVars, outfiles, running>>
            ELSE /\ csf' = [csf EXCEPT !.info = shown]
                 /\ cli_pc' = "csf_call"
                 /\ Enter(csf.file_path, "callable")
                 /\ UNCHANGED cli_ops
    /\ UNCHANGED <<args, movie, out_dir, ffmpeg_installed, engine_error,
                   video_files, user_input, idx, success_count, results,
                   exit_code, rounds>>
    /\ UNCHANGED <<self, utilVars>>

\* KeyboardInterrupt while convert_file runs: it propagates; the encoder,
\* if one is running, gets the interrupt too, and the blocking wait for it
\* ends with its exit
Interrupt ==
    /\ cli_pc = "csf_call"
    /\ pc \notin {"idle", "done"}
    /\ outcome' = Failed(RawException("KeyboardInterrupt", <<>>))
    /\ pc' = "done"
    /\ IF pc = "wait"
       THEN /\ running' = running - 1
            /\ \/ UNCHANGED outfiles
               \/ outfiles' = outfiles \cup {cmd.target}
       ELSE UNCHANGED <<running, outfiles>>
    /\ cli_ops' = cli_ops \cup {"interrupted"}
    /\ UNCHANGED <<input_path, progress_callback, input_exists, output_path,
                   stat_result, estimated_output_size, disk_usage, cmd,
                   stderr, trace, callback_calls, callback_raised,
                   target_existed>>
    /\ UNCHANGED <<cli_pc, args, movie, out_dir, ffmpeg_installed,
                   engine_error, video_files, user_input, idx,
                   success_count, results, csf, exit_code, rounds>>
    /\ UNCHANGED <<self, utilVars>>

CsfReturn_only_taxonomy ==
    /\ cli_pc = "csf_call"
    /\ pc = "done"
    /\ csf' = [csf EXCEPT !.result =
                IF outcome.status = "returned" THEN "True"
                ELSE IF outcome.exc.type \in VideoConverterErrors THEN "False"
                ELSE outcome.exc.type]
    /\ cli_ops' = cli_ops \cup
            (IF outcome.status = "returned" THEN {"conversion_ok"}
             ELSE IF outcome.exc.type = "KeyboardInterrupt" THEN {}
             ELSE {"conversion_failed"})
    /\ cli_pc' = "csf_return"
    /\ UNCHANGED <<args, movie, out_dir, ffmpeg_installed, engine_error,
                   video_files, user_input, idx, success_count, results,
                   exit_code, rounds>>
    /\ UNCHANGED <<localVars, self, outfiles, running, utilVars>>

\* convert_single_file: convert_file has returned (return True) or raised:
\* `except VideoConverterError` and `except Exception` return False, a
\* KeyboardInterrupt is no Exception and propagates
CsfReturn ==
    /\ cli_pc = "csf_call"
    /\ pc = "done"
    /\ csf' = [csf EXCEPT !.result =
                IF outcome.status = "returned" THEN "True"
                ELSE IF outcome.exc.type = "KeyboardInterrupt"
                THEN "KeyboardInterrupt"
                ELSE "False"]
    /\ cli_ops' = cli_ops \cup
            (IF outcome.status = "returned" THEN {"conversion_ok"}
             ELSE IF outcome.exc.type = "KeyboardInterrupt" THEN {}
             ELSE {"conversion_failed"})
    /\ cli_pc' = "csf_return"
    /\ UNCHANGED <<args, movie, out_dir, ffmpeg_installed, engine_error,
                   video_files, user_input, idx, success_count, results,
                   exit_code, rounds>>
    /\ UNCHANGED <<localVars, self, outfiles, running, utilVars>>

ConvertFileModeExit_always_zero ==
    /\ cli_pc = "csf_return"
    /\ args.file # NoPath
    /\ Exit(0)
    /\ DropLocals
    /\ UNCHANGED <<args, movie, out_dir, ffmpeg_installed, engine_error,
                   video_files, user_input, idx, success_count, results,
                   csf, cli_ops, rounds>>
    /\ UNCHANGED <<self, outfiles, running, utilVars>>

\* convert, file mode: raise typer.Exit(0 if success else 1); a
\* KeyboardInterrupt out of convert_single_file ends in
\* `except KeyboardInterrupt` with Exit(1)
ConvertFileModeExit ==
    /\ cli_pc = "csf_return"
    /\ args.file # NoPath
    /\ Exit(IF csf.result = "True" THEN 0 ELSE 1)
    /\ DropLocals
    /\ UNCHANGED <<args, movie, out_dir, ffmpeg_installed, engine_error,
                   video_files, user_input, idx, success_count, results,
                   csf, cli_ops, rounds>>
    /\ UNCHANGED <<self, outfiles, running, utilVars>>

\* convert_interactive, a single file: the result is not used and the loop
\* goes on; a KeyboardInterrupt breaks the loop and the command returns
InteractiveSingleDone ==
    /\ cli_pc = "csf_return"
    /\ args.file = NoPath
    /\ user_input # "all"
    /\ IF csf.result = "KeyboardInterrupt"
       THEN Exit(0)
       ELSE cli_pc' = "listing" /\ UNCHANGED exit_code
    /\ DropLocals
    /\ UNCHANGED <<args, movie, out_dir, ffmpeg_installed, engine_error,
                   video_files, user_input, idx, success_count, results,
                   csf, cli_ops, rounds>>
    /\ UNCHANGED <<self, outfiles, running, utilVars>>

InteractiveAllDone_stop_on_failure ==
    /\ cli_pc = "csf_return"
    /\ args.file = NoPath
    /\ user_input = "all"
    /\ IF csf.result = "KeyboardInterrupt"
       THEN /\ Exit(0)
            /\ UNCHANGED <<idx, success_count, results>>
       ELSE /\ success_count' =
                 IF csf.result = "True" THEN success_count + 1
                 ELSE success_count
            /\ results' = Append(results, csf.result = "True")
            /\ idx' = idx + 1
            /\ cli_pc' = IF csf.result = "True" THEN "all_next" ELSE "listing"
            /\ UNCHANGED exit_code
    /\ DropLocals
    /\ UNCHANGED <<args, movie, out_dir, ffmpeg_installed, engine_error,
                   video_files, user_input, csf, cli_ops, rounds>>
    /\ UNCHANGED <<self, outfiles, running, utilVars>>

\* convert_interactive, 'all': if convert_single_file(...): success_count
\* += 1, and on to the next file; a KeyboardInterrupt breaks the loop and
\* the command returns
InteractiveAllDone ==
    /\ cli_pc = "csf_return"
    /\ args.file = NoPath
    /\ user_input = "all"
    /\ IF csf.result = "KeyboardInterrupt"
       THEN /\ Exit(0)
            /\ UNCHANGED <<idx, success_count, results>>
       ELSE /\ success_count' =
                 IF csf.result = "True" THEN success_count + 1
                 ELSE success_count
            /\ results' = Append(results, csf.result = "True")
            /\ idx' = idx + 1
            /\ cli_pc' = "all_next"
            /\ UNCHANGED exit_code
    /\ DropLocals
    /\ UNCHANGED <<args, movie, out_dir, ffmpeg_installed, engine_error,
                   video_files, user_input, csf, cli_ops, rounds>>
    /\ UNCHANGED <<self, outfiles, running, utilVars>>

NextCli ==
    \/ ConvertCheckBitrate
    \/ ConvertListOnly
    \/ ConvertConstruct
    \/ ConvertFileMode
    \/ ConvertInteractive
    \/ InteractiveListing
    \/ InteractiveInput
    \/ AllNext
    \/ CsfShowInfo
    \/ Interrupt
    \/ CsfReturn
    \/ ConvertFileModeExit
    \/ InteractiveSingleDone
    \/ InteractiveAllDone
    \/ CheckExists
    \/ CheckFormat
    \/ StatInput
    \/ CheckDiskSpace
    \/ BuildStream
    \/ CallbackStart
    \/ LaunchEncoder
    \/ EncoderExit
    \/ CallbackDone
    \/ Return

SpecCli == InitCli /\ [][NextCli]_vars

\* ============================================== claims on the command line
Exited == cli_pc = "exit"

Did(op) == op \in cli_ops

FileMode == args.file # NoPath

\* the failures of the command's own checks
ValidationFailures ==
    {"invalid_bitrate", "engine_failed", "file_missing", "unsupported_file",
     "no_movie_dir"}

ValidationFailed == cli_ops \cap ValidationFailures # {}

C13_InvalidBitrateRejectedFirst ==
    args.bitrate \notin {"128k", "192k", "256k", "320k"} =>
        /\ self = NoEngine
        /\ ffmpeg_installed = "unchecked"
        /\ ~Did("construct")
        /\ ~Did("validate_ffmpeg")
        /\ ~Did("create_output_directory")
        /\ pc = "idle" /\ trace = <<>> /\ running = 0 /\ outfiles = {}
        /\ cli_pc \in {"convert", "exit"}
        /\ Exited => exit_code = 1

C13_Witness ==
    /\ Exited
    /\ args.bitrate = "64k"
    /\ args.list_files
    /\ args.file = Path("movie", <<"a", ".", "mp4">>)
    /\ out_dir = "absent"
    /\ exit_code = 1

\* C14 as stated: construction calls validate_ffmpeg and
\* create_output_directory; with check_ffmpeg_installed false it fails with
\* FFmpegNotFoundError and no engine is obtained; with it true it succeeds
\* with output_dir and bitrate equal to the arguments and the output
\* directory existing.
C14_Original ==
    Did("construct") =>
        /\ Did("validate_ffmpeg")
        /\ ffmpeg_installed = "False" =>
            /\ engine_error.type = "FFmpegNotFoundError"
            /\ self = NoEngine
        /\ ffmpeg_installed = "True" =>
            /\ Did("create_output_directory")
            /\ self = [output_dir |-> args.output, bitrate |-> args.bitrate]
            /\ out_dir = "dir"

\* C14 as amended: with check_ffmpeg_installed true, construction succeeds
\* with output_dir and bitrate equal to the arguments and the output
\* directory existing unless create_output_directory raises (the path is a
\* regular file), in which case construction fails with that error and no
\* engine is obtained; the rest as stated.
C14_ConstructionChecksEncoderThenDirectory ==
    Did("construct") =>
        /\ Did("validate_ffmpeg")
        /\ ffmpeg_installed = "False" =>
            /\ engine_error.type = "FFmpegNotFoundError"
            /\ self = NoEngine
            /\ ~Did("create_output_directory")
        /\ ffmpeg_installed = "True" =>
            /\ Did("create_output_directory")
            /\ IF out_dir = "file"
               THEN /\ engine_error.type = "FileExistsError"
                    /\ self = NoEngine
               ELSE /\ engine_error = NoExc
                    /\ self = [output_dir |-> args.output,
                               bitrate |-> args.bitrate]
                    /\ out_dir = "dir"

C14_Witness ==
    /\ Did("construct")
    /\ ffmpeg_installed = "True"
    /\ out_dir = "file"
    /\ self = NoEngine
    /\ exit_code = 1

C17_SingleFileNeverRaises ==
    cli_pc = "csf_return" =>
        /\ csf.result \in {"True", "False", "KeyboardInterrupt"}
        /\ csf.result = "KeyboardInterrupt" <=>
                (outcome.status = "raised"
                 /\ outcome.exc.type = "KeyboardInterrupt")
        /\ csf.result = "True" <=>
                (outcome.status = "returned" /\ outcome.value # NoPath)
        /\ csf.info = "error" =>
                (csf.show_info /\ input_path = csf.file_path
                 /\ outcome.status # "pending")
        /\ (outcome.status = "raised"
            /\ outcome.exc.type # "KeyboardInterrupt") => csf.result = "False"

C17_Witness ==
    /\ cli_pc = "csf_return"
    /\ csf.info = "error"
    /\ csf.result = "True"
    /\ outcome.status = "returned"

\* the 'all' loop is at work on the listing
InAll ==
    /\ args.file = NoPath
    /\ user_input = "all"
    /\ cli_pc \in {"all_next", "csf_info", "csf_call", "csf_return"}

\* the 'all' loop is over and its summary printed: back at the top of the
\* interactive loop
AllSummary == cli_pc = "listing" /\ user_input = "all"

\* the supported regular files of the movie directory, by name
MovieVideoNames ==
    {e.name : e \in {x \in movie.entries :
                        /\ x.is_file
                        /\ Lower(Suffix(x.name)) \in SUPPORTED_VIDEO_FORMATS}}

\* C26: in 'all', unless the command is interrupted from the keyboard, every
\* file of the listing is attempted exactly once, in the (sorted) order of
\* the listing; a failed conversion does not prevent the later attempts;
\* the reported count is the number of files convert_single_file returned
\* True for, between 0 and the number of files; the loop then goes on with
\* a fresh listing and does not exit.
C26_AllAttemptsEachOnceInOrder ==
    /\ (InAll \/ AllSummary) =>
        /\ {video_files[i].name : i \in DOMAIN video_files} = MovieVideoNames
        /\ Len(video_files) = Cardinality(MovieVideoNames)
        /\ \A i \in DOMAIN video_files : \A j \in DOMAIN video_files :
                i < j => LexLess(NameCodes(video_files[i].name),
                                 NameCodes(video_files[j].name))
        /\ success_count = Count(results, TRUE)
        /\ success_count \in 0..Len(video_files)
        /\ exit_code = NoExit
    /\ InAll =>
        \* the files before idx have been attempted, one result each, and
        \* the attempt under way is that of the file at idx
        /\ idx \in 1..(Len(video_files) + 1)
        /\ Len(results) = idx - 1
        /\ cli_pc # "all_next" =>
            /\ idx <= Len(video_files)
            /\ csf.file_path = video_files[idx]
            /\ csf.show_info
        /\ cli_pc = "csf_call" => input_path = video_files[idx]
    /\ AllSummary =>
        /\ Len(results) = Len(video_files)
        /\ idx = Len(video_files) + 1

C26_Witness ==
    /\ AllSummary
    /\ Len(video_files) = 3
    /\ results = <<FALSE, TRUE, FALSE>>
    /\ success_count = 1
    /\ exit_code = NoExit

\* the output file of an input of the command
C27_Target(p) == Path(self.output_dir, Stem(p.name) \o <<".", "mp3">>)

\* C27: the output path depends on the stem and the output directory only:
\* inputs of the same stem (a.Avi and a.mp4, or files of the same name in
\* different directories) get the same output path; converted in sequence
\* by 'all', the later overwrites the output of the earlier, both count as
\* successes, and fewer output files than successful conversions exist.
C27_SameStemOverwrites ==
    /\ (InAll \/ AllSummary) =>
        /\ \A i \in DOMAIN video_files : \A j \in DOMAIN video_files :
                Stem(video_files[i].name) = Stem(video_files[j].name) =>
                    get_output_path(video_files[i], self.output_dir)
                        = get_output_path(video_files[j], self.output_dir)
        /\ \A i \in DOMAIN video_files :
                get_output_path(Path("other", video_files[i].name),
                                self.output_dir)
                    = get_output_path(video_files[i], self.output_dir)
        \* the outputs of the successes so far, and nothing more than one
        \* file per stem
        /\ \A i \in DOMAIN results :
                results[i] => C27_Target(video_files[i]) \in outfiles
        /\ outfiles \subseteq
                {C27_Target(video_files[i]) : i \in DOMAIN video_files}
    /\ (InAll /\ cli_pc = "csf_return" /\ csf.result = "True") =>
        /\ cmd.target = C27_Target(video_files[idx])
        /\ cmd.overwrite
        /\ cmd.target \in outfiles
        /\ (\E i \in DOMAIN results :
                /\ results[i]
                /\ Stem(video_files[i].name) = Stem(video_files[idx].name)) =>
                    target_existed
    /\ (AllSummary
            /\ \E i \in DOMAIN results : \E j \in DOMAIN results :
                  /\ i < j
                  /\ results[i]
                  /\ results[j]
                  /\ Stem(video_files[i].name) = Stem(video_files[j].name)
                  /\ \A k \in DOMAIN results : results[k]) =>
        Cardinality(outfiles) < success_count

C27_Witness ==
    /\ AllSummary
    /\ video_files[1].name = <<"a", ".", "Avi">>
    /\ video_files[2].name = <<"a", ".", "mp4">>
    /\ results = <<TRUE, TRUE, TRUE>>
    /\ success_count = 3
    /\ outfiles = {Path("mp3", <<"a", ".", "mp3">>),
                   Path("mp3", <<"b", ".", "mp3">>)}

====
